---- MODULE Spec2Model ----
(***************************************************************************)
(* Model of the video generation job of app/services/video_service.py      *)
(* (create_video_task) with its collaborators: download_file, cleanup_dir, *)
(* ensure_dir (utils/file_utils.py), run_ffmpeg_async, get_media_duration  *)
(* (utils/ffmpeg_utils.py), upload_to_supabase_storage and                 *)
(* update_video_record_status (services/supabase_service.py).              *)
(*                                                                         *)
(* One job run is one coroutine; every action below is the code between    *)
(* two awaits.  The results of the external calls (download, ffprobe,      *)
(* ffmpeg, storage upload, record-store update, file-system calls) are the *)
(* inputs of the actions.  Durations are integers in milliseconds.         *)
(* Optional values (Python None) are sequences of length 0 or 1.           *)
(***************************************************************************)
EXTENDS Integers, Sequences, FiniteSets, TLC

\* ------------------------------------------------------------------ bounds
MaxImages == 3
MaxSamples == 4
SampleStep == 22500

\* ------------------------------------------------------- program constants
default_slideshow_duration == 60000
default_zoom_duration == 60000

None == <<>>
Some(x) == <<x>>
IsNone(o) == o = <<>>
Val(o) == o[1]

Min(a, b) == IF a <= b THEN a ELSE b
Max(a, b) == IF a >= b THEN a ELSE b

\* The request: owner ids, job ids, image counts (main.py accepts 1..20 images).
UserIds == {"u1", "u2"}
VideoIds == {"v1"}
ImageCounts == 1..MaxImages

\* Values ffprobe can print for the audio file, in milliseconds.
ProbeDurations ==
    {-1, 0, 7, 59999, 60000, 60001} \cup {k * SampleStep : k \in 1..MaxSamples}

\* Exception messages (str(e)) the except clause can capture.
MsgNoImages == "Failed to download any images."
MsgPart1 == "Failed to generate Part 1 (Slideshow)"
MsgConcat == "Failed intermediate concatenation"
MsgMux == "Failed final video processing"
MsgUpload == "Failed to upload final video to Supabase Storage."
MsgOSError == "OSError"

VARIABLES
    pc,                              \* position of the coroutine
    video_id, user_id, image_count,  \* the request
    use_hq_zoom,                     \* settings.use_high_quality_zoom
    temp_dir_exists,                 \* the workspace directory exists on disk
    dl,                              \* download task name -> "pending" | "ok" | "failed"
    successfully_downloaded_images,  \* sequence of image indices (0-based)
    successfully_downloaded_audio,   \* BOOLEAN: the audio path is set
    audio_duration_seconds,          \* None | Some(ms)
    actual_slideshow_duration,       \* None before planning | Some(ms)
    actual_zoom_duration,            \* None before planning | Some(ms)
    filelist_part1,                  \* entries of the slideshow file list
    last_image_path,                 \* None | Some(image index): zoom source
    video_parts_to_concat,           \* sequence of "part1", "part2"
    concat_list,                     \* entries handed to the concat call
    combined,                        \* how the combined file was made
    ffmpeg_command_final,            \* None | Some(arguments of the mux call)
    upload_destination,              \* None | Some(destination key)
    public_video_url,                \* None | Some(url)
    error,                           \* None | Some(str(e)) of the raised exception
    calls,                           \* external invocations, in order, with result
    updates,                         \* record-store updates issued, in order
    db,                              \* the job's row in video_records
    cleanup_runs,                    \* times cleanup_dir was called
    jobs,                            \* concurrent jobs: job -> phase, ids, temp_dir
    temp_dirs,                       \* directories existing under temp_dir_base
    temp_files,                      \* files in them: <<directory, writing job>>
    srt_blocks,                      \* the blocks of the subtitle file read
    max_words,                       \* max_words of the reformat call
    srt_pos,                         \* index of the next block to process
    new_subtitle_index,              \* number of the next cue written
    output_srt_blocks,               \* blocks produced so far
    zoom_pan_vf,                     \* zoompan filter: its settings and d
    on,                              \* zoompan: number of the next output frame
    zoom                             \* zoompan: zoom of the previous frame

vars == << pc, video_id, user_id, image_count, use_hq_zoom, temp_dir_exists, dl,
           successfully_downloaded_images, successfully_downloaded_audio,
           audio_duration_seconds, actual_slideshow_duration,
           actual_zoom_duration, filelist_part1, last_image_path,
           video_parts_to_concat, concat_list, combined, ffmpeg_command_final,
           upload_destination, public_video_url, error, calls, updates, db,
           cleanup_runs, jobs, temp_dirs, temp_files, srt_blocks, max_words,
           srt_pos, new_subtitle_index, output_srt_blocks, zoom_pan_vf, on,
           zoom >>

\* The variables of the concurrent-jobs view, of the subtitle segmenter and
\* of the zoom filter.
fleet == << jobs, temp_dirs, temp_files >>
segmenter == << srt_blocks, max_words, srt_pos, new_subtitle_index,
                output_srt_blocks >>
zoompan == << zoom_pan_vf, on, zoom >>

\* No job of the concurrent-jobs view exists; no subtitle file is being
\* reformatted.
NoFleet == jobs = <<>> /\ temp_dirs = {} /\ temp_files = {}
NoSegmenter ==
    /\ srt_blocks = <<>>
    /\ max_words = 0
    /\ srt_pos = 0
    /\ new_subtitle_index = 0
    /\ output_srt_blocks = <<>>

\* No zoom filter is being evaluated.
NoZoompan == zoom_pan_vf = << >> /\ on = 0 /\ zoom = 0

\* Variables only the request sets.
request == << video_id, user_id, image_count, use_hq_zoom >>


\* ------------------------------------------------------------ pure helpers

\* Timing plan, video_service.py lines 100-111.
PlanSlideshow(d) ==
    IF ~IsNone(d) /\ Val(d) > 0
    THEN Min(Val(d), default_slideshow_duration)
    ELSE default_slideshow_duration

\* Mutant of PlanZoom: the remainder is not floored at 0.
PlanZoom_NoFloor(d) ==
    IF ~IsNone(d) /\ Val(d) > 0
    THEN Val(d) - default_slideshow_duration
    ELSE default_zoom_duration

PlanZoom(d) ==
    IF ~IsNone(d) /\ Val(d) > 0
    THEN Max(0, Val(d) - PlanSlideshow(d))
    ELSE default_zoom_duration

\* Image task indices in creation order: img-0 .. img-(n-1).
ImageTasks(n) == [i \in 1..n |-> i - 1]

\* Mutant of ImageSucceeded: a False result is taken for a downloaded file.
ImageSucceeded_AnyResult(d, i) == d.img[i] \in {"ok", "failed"}

\* Lines 66-80: the results are walked in task order; an image task whose
\* result is not False/exception contributes its path.
ImageSucceeded(d, i) == d.img[i] = "ok"

\* Mutant of ClassifyImages: the downloaded images are collected in reverse
\* task order.
ClassifyImages_Reversed(d, n) ==
    LET fwd == SelectSeq(ImageTasks(n), LAMBDA i : d.img[i] = "ok")
    IN  [k \in 1..Len(fwd) |-> fwd[Len(fwd) + 1 - k]]

ClassifyImages(d, n) ==
    SelectSeq(ImageTasks(n), LAMBDA i : ImageSucceeded(d, i))

ClassifyAudio(d) == d.audio = "ok"

\* Mutant of DurationPerImage: no floor of 0.01 s.
DurationPerImage_NoFloor(s, n) == (2 * s * 1000 + n) \div (2 * n)

\* Lines 120-121 and the "{:.6f}" of line 124: the per-image duration
\* max(0.01, s / n) as printed with six decimals, that is in microseconds
\* rounded to nearest (s is in milliseconds).
DurationPerImage(s, n) == Max(10000, (2 * s * 1000 + n) \div (2 * n))

\* Lines 124: one "file ... / duration ..." entry per downloaded image.
FileListPart1(images, s) ==
    [k \in 1..Len(images) |->
        [file |-> images[k], duration |-> DurationPerImage(s, Len(images))]]

\* Mutant of MuxCommand: the audio input is added whether or not the audio
\* was downloaded.
MuxCommand_AlwaysAudio(audio) ==
    [ inputs |-> <<"combined", "audio">>,
      filter_complex |-> FALSE,
      maps |-> <<"0:v", "1:a">>,
      shortest |-> TRUE ]

\* Mutant of MuxCommand: -shortest is never added.
MuxCommand_NoShortest(audio) ==
    [ inputs |-> <<"combined">> \o (IF audio THEN <<"audio">> ELSE <<>>),
      filter_complex |-> FALSE,
      maps |-> <<"0:v">> \o (IF audio THEN <<"1:a">> ELSE <<>>),
      shortest |-> FALSE ]

\* Lines 364-442: the argument list of the final (mux) command.  The overlay
\* is disabled (overlay_ffmpeg_index = -1), so no filter_complex is built.
MuxCommand(audio) ==
    [ inputs |-> <<"combined">> \o (IF audio THEN <<"audio">> ELSE <<>>),
      filter_complex |-> FALSE,
      maps |-> <<"0:v">> \o (IF audio THEN <<"1:a">> ELSE <<>>),
      shortest |-> audio ]

\* Lines 355-357 and 457: final file name and destination key.
FinalVideoFilename(vid) == <<"video-", vid, ".mp4">>
SupabaseDestinationPath(uid, vid) == <<"user_", uid, "/", FinalVideoFilename(vid)>>

\* supabase_service.py line 46: the public URL built for a destination key.
PublicUrl(dest) == <<"storage/v1/object/public", dest>>

\* Mutant of UpdateData: fields are kept by truth value, so a minutes_taken
\* of 0.0 is removed like a None.
UpdateData_DropFalsy(u) ==
    [ status |-> Some(u.status),
      final_video_url |-> u.final_video_url,
      error_message |-> u.error_message,
      minutes_taken |-> IF u.minutes_taken = Some(0) THEN None
                        ELSE u.minutes_taken ]

\* supabase_service.py lines 69-76: only non-None fields are sent.
UpdateData(u) ==
    [ status |-> Some(u.status),
      final_video_url |-> u.final_video_url,
      error_message |-> u.error_message,
      minutes_taken |-> u.minutes_taken ]

\* Mutant of ApplyField: a None in the call overwrites the stored value.
ApplyField_Overwrite(old, new) == new

\* The record store's update: a column absent from the payload keeps its value.
ApplyField(old, new) == IF IsNone(new) THEN old ELSE new

\* The row after the update was executed by the record store.
ApplyUpdate(row, u) ==
    [ status |-> Val(UpdateData(u).status),
      final_video_url |-> ApplyField(row.final_video_url, UpdateData(u).final_video_url),
      error_message |-> ApplyField(row.error_message, UpdateData(u).error_message),
      minutes_taken |-> ApplyField(row.minutes_taken, UpdateData(u).minutes_taken) ]

UpdateCall(status, url, err, mins) ==
    [ status |-> status, final_video_url |-> url,
      error_message |-> err, minutes_taken |-> mins ]

\* supabase_service.py lines 57-99: update_video_record_status.  The call is
\* issued; when execute() raises the exception is logged and swallowed and
\* the row keeps its old values (executed = FALSE).
update_video_record_status(u, executed) ==
    /\ updates' = Append(updates, u)
    /\ db' = IF executed THEN ApplyUpdate(db, u) ELSE db

\* An external invocation and its outcome, appended to the call log.
Invoke(op, ok) == calls' = Append(calls, [op |-> op, ok |-> ok])

\* raise <exception>: control goes to the except clause with str(e).
Raise(msg) ==
    /\ error' = Some(msg)
    /\ pc' = "except"


\* ------------------------------------------------------------------- state

AllPending(n) == [img |-> [i \in 0..(n - 1) |-> "pending"], audio |-> "pending"]

\* main.py lines 83-113: the row is inserted with status "pending" and the
\* task is queued with the request's ids and urls.
Init ==
    /\ pc = "start"
    /\ video_id \in VideoIds
    /\ user_id \in UserIds
    /\ image_count \in ImageCounts
    /\ use_hq_zoom \in BOOLEAN
    /\ temp_dir_exists = FALSE
    /\ dl = AllPending(image_count)
    /\ successfully_downloaded_images = <<>>
    /\ successfully_downloaded_audio = FALSE
    /\ audio_duration_seconds = None
    /\ actual_slideshow_duration = None
    /\ actual_zoom_duration = None
    /\ filelist_part1 = <<>>
    /\ last_image_path = None
    /\ video_parts_to_concat = <<>>
    /\ concat_list = <<>>
    /\ combined = "none"
    /\ ffmpeg_command_final = None
    /\ upload_destination = None
    /\ public_video_url = None
    /\ error = None
    /\ calls = <<>>
    /\ updates = <<>>
    /\ db = [ status |-> "pending", final_video_url |-> None,
              error_message |-> None, minutes_taken |-> None ]
    /\ cleanup_runs = 0
    /\ NoFleet
    /\ NoSegmenter
    /\ NoZoompan

\* ----------------------------------------------------------------- actions

\* Lines 38-62: ensure_dir(temp_dir), ensure_dir(output_dir), the "processing"
\* update, then the download tasks are created.  os.makedirs may raise.
Start ==
    /\ pc = "start"
    /\ \E fault \in {"none", "temp_dir", "output_dir"}, executed \in BOOLEAN :
          /\ temp_dir_exists' = (fault # "temp_dir")
          /\ IF fault = "none"
             THEN /\ update_video_record_status(
                         UpdateCall("processing", None, None, None), executed)
                  /\ pc' = "download"
                  /\ error' = error
             ELSE /\ Raise(MsgOSError)
                  /\ UNCHANGED << updates, db >>
    /\ UNCHANGED << fleet, segmenter, zoompan >>
    /\ UNCHANGED << request, dl, successfully_downloaded_images,
                    successfully_downloaded_audio, audio_duration_seconds,
                    actual_slideshow_duration, actual_zoom_duration,
                    filelist_part1, last_image_path, video_parts_to_concat,
                    concat_list, combined, ffmpeg_command_final,
                    upload_destination, public_video_url, calls, cleanup_runs >>

\* Mutant of DownloadImage: a failed download cancels the tasks still running
\* (their results become failures).
DownloadImage_CancelSiblings ==
    /\ pc = "download"
    /\ \E i \in 0..(image_count - 1), r \in {"ok", "failed"} :
          /\ dl.img[i] = "pending"
          /\ dl' = IF r = "ok"
                   THEN [dl EXCEPT !.img[i] = r]
                   ELSE [ img |-> [j \in 0..(image_count - 1) |->
                                     IF dl.img[j] = "pending" THEN "failed"
                                                              ELSE dl.img[j]],
                          audio |-> IF dl.audio = "pending" THEN "failed"
                                                            ELSE dl.audio ]
    /\ UNCHANGED << fleet, segmenter, zoompan >>
    /\ UNCHANGED << pc, request, temp_dir_exists, successfully_downloaded_images,
                    successfully_downloaded_audio, audio_duration_seconds,
                    actual_slideshow_duration, actual_zoom_duration,
                    filelist_part1, last_image_path, video_parts_to_concat,
                    concat_list, combined, ffmpeg_command_final,
                    upload_destination, public_video_url, error, calls,
                    updates, db, cleanup_runs >>

\* file_utils.py lines 11-31: one download task ends, with True or False
\* (download_file catches every exception and returns False).
DownloadImage ==
    /\ pc = "download"
    /\ \E i \in 0..(image_count - 1), r \in {"ok", "failed"} :
          /\ dl.img[i] = "pending"
          /\ dl' = [dl EXCEPT !.img[i] = r]
    /\ UNCHANGED << fleet, segmenter, zoompan >>
    /\ UNCHANGED << pc, request, temp_dir_exists, successfully_downloaded_images,
                    successfully_downloaded_audio, audio_duration_seconds,
                    actual_slideshow_duration, actual_zoom_duration,
                    filelist_part1, last_image_path, video_parts_to_concat,
                    concat_list, combined, ffmpeg_command_final,
                    upload_destination, public_video_url, error, calls,
                    updates, db, cleanup_runs >>

DownloadAudio ==
    /\ pc = "download"
    /\ dl.audio = "pending"
    /\ \E r \in {"ok", "failed"} : dl' = [dl EXCEPT !.audio = r]
    /\ UNCHANGED << fleet, segmenter, zoompan >>
    /\ UNCHANGED << pc, request, temp_dir_exists, successfully_downloaded_images,
                    successfully_downloaded_audio, audio_duration_seconds,
                    actual_slideshow_duration, actual_zoom_duration,
                    filelist_part1, last_image_path, video_parts_to_concat,
                    concat_list, combined, ffmpeg_command_final,
                    upload_destination, public_video_url, error, calls,
                    updates, db, cleanup_runs >>

AllDownloadsDone(d, n) ==
    /\ d.audio # "pending"
    /\ \A i \in 0..(n - 1) : d.img[i] # "pending"

\* Mutant of GatherDownloads: any failed image download raises.
GatherDownloads_AllRequired ==
    /\ pc = "download"
    /\ AllDownloadsDone(dl, image_count)
    /\ successfully_downloaded_images' = ClassifyImages(dl, image_count)
    /\ successfully_downloaded_audio' = ClassifyAudio(dl)
    /\ IF Len(successfully_downloaded_images') < image_count
       THEN Raise(MsgNoImages)
       ELSE /\ pc' = "probe"
            /\ error' = error
    /\ UNCHANGED << fleet, segmenter, zoompan >>
    /\ UNCHANGED << request, temp_dir_exists, dl, audio_duration_seconds,
                    actual_slideshow_duration, actual_zoom_duration,
                    filelist_part1, last_image_path, video_parts_to_concat,
                    concat_list, combined, ffmpeg_command_final,
                    upload_destination, public_video_url, calls, updates, db,
                    cleanup_runs >>

\* Lines 64-89: gather returns once every task has ended; the results are
\* classified; no image at all raises ValueError.
GatherDownloads ==
    /\ pc = "download"
    /\ AllDownloadsDone(dl, image_count)
    /\ successfully_downloaded_images' = ClassifyImages(dl, image_count)
    /\ successfully_downloaded_audio' = ClassifyAudio(dl)
    /\ IF successfully_downloaded_images' = <<>>
       THEN Raise(MsgNoImages)
       ELSE /\ pc' = "probe"
            /\ error' = error
    /\ UNCHANGED << fleet, segmenter, zoompan >>
    /\ UNCHANGED << request, temp_dir_exists, dl, audio_duration_seconds,
                    actual_slideshow_duration, actual_zoom_duration,
                    filelist_part1, last_image_path, video_parts_to_concat,
                    concat_list, combined, ffmpeg_command_final,
                    upload_destination, public_video_url, calls, updates, db,
                    cleanup_runs >>

\* ffmpeg_utils.py lines 32-64: a duration, or None on a non-zero exit code,
\* empty or non-numeric output.
ProbeResults == {None} \cup {Some(d) : d \in ProbeDurations}

\* Lines 91-127: probe the audio (only when it was downloaded), plan the two
\* durations, write the slideshow file list (the write may raise OSError).
ProbeAndPlan ==
    /\ pc = "probe"
    /\ \E r \in ProbeResults, written \in BOOLEAN :
          /\ IF successfully_downloaded_audio
             THEN /\ audio_duration_seconds' = r
                  /\ Invoke("probe", ~IsNone(r))
             ELSE /\ r = None
                  /\ audio_duration_seconds' = None
                  /\ calls' = calls
          /\ actual_slideshow_duration' = Some(PlanSlideshow(audio_duration_seconds'))
          /\ actual_zoom_duration' = Some(PlanZoom(audio_duration_seconds'))
          /\ IF written
             THEN /\ filelist_part1' =
                        FileListPart1(successfully_downloaded_images,
                                      Val(actual_slideshow_duration'))
                  /\ pc' = "slideshow"
                  /\ error' = error
             ELSE /\ filelist_part1' = filelist_part1
                  /\ Raise(MsgOSError)
    /\ UNCHANGED << fleet, segmenter, zoompan >>
    /\ UNCHANGED << request, temp_dir_exists, dl, successfully_downloaded_images,
                    successfully_downloaded_audio, last_image_path,
                    video_parts_to_concat, concat_list, combined,
                    ffmpeg_command_final, upload_destination, public_video_url,
                    updates, db, cleanup_runs >>


\* Mutant of SlideshowRender: the zoom segment is attempted also for a zoom
\* duration of zero.
SlideshowRender_ZoomAlways ==
    /\ pc = "slideshow"
    /\ \E success \in BOOLEAN :
          /\ Invoke("slideshow", success)
          /\ IF ~success
             THEN /\ Raise(MsgPart1)
                  /\ UNCHANGED << video_parts_to_concat, last_image_path >>
             ELSE /\ video_parts_to_concat' = Append(video_parts_to_concat, "part1")
                  /\ error' = error
                  /\ IF Val(actual_zoom_duration) >= 0
                        /\ successfully_downloaded_images # <<>>
                     THEN /\ last_image_path' =
                                Some(successfully_downloaded_images[
                                        Len(successfully_downloaded_images)])
                          /\ pc' = "zoom"
                     ELSE /\ last_image_path' = last_image_path
                          /\ pc' = "concat"
    /\ UNCHANGED << fleet, segmenter, zoompan >>
    /\ UNCHANGED << request, temp_dir_exists, dl, successfully_downloaded_images,
                    successfully_downloaded_audio, audio_duration_seconds,
                    actual_slideshow_duration, actual_zoom_duration,
                    filelist_part1, concat_list, combined, ffmpeg_command_final,
                    upload_destination, public_video_url, updates, db,
                    cleanup_runs >>

\* Lines 157-165: the slideshow render; failure raises RuntimeError.  On
\* success the zoom stage is entered only for a positive zoom duration, with
\* the last downloaded image as its source.
SlideshowRender ==
    /\ pc = "slideshow"
    /\ \E success \in BOOLEAN :
          /\ Invoke("slideshow", success)
          /\ IF ~success
             THEN /\ Raise(MsgPart1)
                  /\ UNCHANGED << video_parts_to_concat, last_image_path >>
             ELSE /\ video_parts_to_concat' = Append(video_parts_to_concat, "part1")
                  /\ error' = error
                  /\ IF Val(actual_zoom_duration) > 0
                        /\ successfully_downloaded_images # <<>>
                     THEN /\ last_image_path' =
                                Some(successfully_downloaded_images[
                                        Len(successfully_downloaded_images)])
                          /\ pc' = "zoom"
                     ELSE /\ last_image_path' = last_image_path
                          /\ pc' = "concat"
    /\ UNCHANGED << fleet, segmenter, zoompan >>
    /\ UNCHANGED << request, temp_dir_exists, dl, successfully_downloaded_images,
                    successfully_downloaded_audio, audio_duration_seconds,
                    actual_slideshow_duration, actual_zoom_duration,
                    filelist_part1, concat_list, combined, ffmpeg_command_final,
                    upload_destination, public_video_url, updates, db,
                    cleanup_runs >>

\* Mutant of ZoomRender: a failed zoom render raises like the slideshow's.
ZoomRender_Fatal ==
    /\ pc = "zoom"
    /\ \E success \in BOOLEAN :
          /\ Invoke("zoom", success)
          /\ IF success
             THEN /\ video_parts_to_concat' = Append(video_parts_to_concat, "part2")
                  /\ pc' = "concat"
                  /\ error' = error
             ELSE /\ video_parts_to_concat' = video_parts_to_concat
                  /\ Raise("Failed to generate Part 2 (Zoom Effect)")
    /\ UNCHANGED << fleet, segmenter, zoompan >>
    /\ UNCHANGED << request, temp_dir_exists, dl, successfully_downloaded_images,
                    successfully_downloaded_audio, audio_duration_seconds,
                    actual_slideshow_duration, actual_zoom_duration,
                    filelist_part1, last_image_path, concat_list, combined,
                    ffmpeg_command_final, upload_destination, public_video_url,
                    updates, db, cleanup_runs >>

\* Mutant of ZoomRender: the concat call is started together with the zoom
\* render instead of after its return.
ZoomRender_WithConcat ==
    /\ pc = "zoom"
    /\ \E success \in BOOLEAN :
          /\ calls' = calls \o << [op |-> "zoom", ok |-> success],
                                  [op |-> "concat", ok |-> TRUE] >>
          /\ video_parts_to_concat' =
                IF success THEN Append(video_parts_to_concat, "part2")
                           ELSE video_parts_to_concat
    /\ pc' = "concat"
    /\ UNCHANGED << fleet, segmenter, zoompan >>
    /\ UNCHANGED << request, temp_dir_exists, dl, successfully_downloaded_images,
                    successfully_downloaded_audio, audio_duration_seconds,
                    actual_slideshow_duration, actual_zoom_duration,
                    filelist_part1, last_image_path, concat_list, combined,
                    ffmpeg_command_final, upload_destination, public_video_url,
                    error, updates, db, cleanup_runs >>

\* Mutant of ZoomRender: the zoom segment is put in front of the slideshow.
ZoomRender_Prepend ==
    /\ pc = "zoom"
    /\ \E success \in BOOLEAN :
          /\ Invoke("zoom", success)
          /\ video_parts_to_concat' =
                IF success THEN << "part2" >> \o video_parts_to_concat
                           ELSE video_parts_to_concat
    /\ pc' = "concat"
    /\ UNCHANGED << fleet, segmenter, zoompan >>
    /\ UNCHANGED << request, temp_dir_exists, dl, successfully_downloaded_images,
                    successfully_downloaded_audio, audio_duration_seconds,
                    actual_slideshow_duration, actual_zoom_duration,
                    filelist_part1, last_image_path, concat_list, combined,
                    ffmpeg_command_final, upload_destination, public_video_url,
                    error, updates, db, cleanup_runs >>

\* Lines 252-258: the zoom render; on failure a warning is logged and the
\* job goes on without the segment.
ZoomRender ==
    /\ pc = "zoom"
    /\ \E success \in BOOLEAN :
          /\ Invoke("zoom", success)
          /\ video_parts_to_concat' =
                IF success THEN Append(video_parts_to_concat, "part2")
                           ELSE video_parts_to_concat
    /\ pc' = "concat"
    /\ UNCHANGED << fleet, segmenter, zoompan >>
    /\ UNCHANGED << request, temp_dir_exists, dl, successfully_downloaded_images,
                    successfully_downloaded_audio, audio_duration_seconds,
                    actual_slideshow_duration, actual_zoom_duration,
                    filelist_part1, last_image_path, concat_list, combined,
                    ffmpeg_command_final, upload_destination, public_video_url,
                    error, updates, db, cleanup_runs >>

\* Mutant of Concatenate: the result of the concat call is not looked at.
Concatenate_IgnoreFailure ==
    /\ pc = "concat"
    /\ \E success \in BOOLEAN :
          IF Len(video_parts_to_concat) = 1
          THEN /\ calls' = calls
               /\ concat_list' = concat_list
               /\ IF success
                  THEN /\ combined' = "copy"
                       /\ pc' = "mux"
                       /\ error' = error
                  ELSE /\ combined' = combined
                       /\ Raise(MsgOSError)
          ELSE /\ concat_list' = video_parts_to_concat
               /\ Invoke("concat", success)
               /\ combined' = "concat"
               /\ pc' = "mux"
               /\ error' = error
    /\ UNCHANGED << fleet, segmenter, zoompan >>
    /\ UNCHANGED << request, temp_dir_exists, dl, successfully_downloaded_images,
                    successfully_downloaded_audio, audio_duration_seconds,
                    actual_slideshow_duration, actual_zoom_duration,
                    filelist_part1, last_image_path, video_parts_to_concat,
                    ffmpeg_command_final, upload_destination, public_video_url,
                    updates, db, cleanup_runs >>

\* Mutant of Concatenate: a single segment goes through the engine as well.
Concatenate_AlwaysEngine ==
    /\ pc = "concat"
    /\ \E success \in BOOLEAN :
          IF Len(video_parts_to_concat) = 0
          THEN /\ calls' = calls
               /\ concat_list' = concat_list
               /\ IF success
                  THEN /\ combined' = "copy"
                       /\ pc' = "mux"
                       /\ error' = error
                  ELSE /\ combined' = combined
                       /\ Raise(MsgOSError)
          ELSE /\ concat_list' = video_parts_to_concat
               /\ Invoke("concat", success)
               /\ IF success
                  THEN /\ combined' = "concat"
                       /\ pc' = "mux"
                       /\ error' = error
                  ELSE /\ combined' = combined
                       /\ Raise(MsgConcat)
    /\ UNCHANGED << fleet, segmenter, zoompan >>
    /\ UNCHANGED << request, temp_dir_exists, dl, successfully_downloaded_images,
                    successfully_downloaded_audio, audio_duration_seconds,
                    actual_slideshow_duration, actual_zoom_duration,
                    filelist_part1, last_image_path, video_parts_to_concat,
                    ffmpeg_command_final, upload_destination, public_video_url,
                    updates, db, cleanup_runs >>

\* Lines 262-289: one part is copied (shutil.copyfile, which may raise
\* OSError); several parts are concatenated by the engine, whose failure
\* raises RuntimeError.
Concatenate ==
    /\ pc = "concat"
    /\ \E success \in BOOLEAN :
          IF Len(video_parts_to_concat) = 1
          THEN /\ calls' = calls
               /\ concat_list' = concat_list
               /\ IF success
                  THEN /\ combined' = "copy"
                       /\ pc' = "mux"
                       /\ error' = error
                  ELSE /\ combined' = combined
                       /\ Raise(MsgOSError)
          ELSE /\ concat_list' = video_parts_to_concat
               /\ Invoke("concat", success)
               /\ IF success
                  THEN /\ combined' = "concat"
                       /\ pc' = "mux"
                       /\ error' = error
                  ELSE /\ combined' = combined
                       /\ Raise(MsgConcat)
    /\ UNCHANGED << fleet, segmenter, zoompan >>
    /\ UNCHANGED << request, temp_dir_exists, dl, successfully_downloaded_images,
                    successfully_downloaded_audio, audio_duration_seconds,
                    actual_slideshow_duration, actual_zoom_duration,
                    filelist_part1, last_image_path, video_parts_to_concat,
                    ffmpeg_command_final, upload_destination, public_video_url,
                    updates, db, cleanup_runs >>

\* Lines 354-453: the final command is built and run; failure raises.
Mux ==
    /\ pc = "mux"
    /\ ffmpeg_command_final' = Some(MuxCommand(successfully_downloaded_audio))
    /\ \E success \in BOOLEAN :
          /\ Invoke("mux", success)
          /\ IF success
             THEN /\ pc' = "upload"
                  /\ error' = error
             ELSE Raise(MsgMux)
    /\ UNCHANGED << fleet, segmenter, zoompan >>
    /\ UNCHANGED << request, temp_dir_exists, dl, successfully_downloaded_images,
                    successfully_downloaded_audio, audio_duration_seconds,
                    actual_slideshow_duration, actual_zoom_duration,
                    filelist_part1, last_image_path, video_parts_to_concat,
                    concat_list, combined, upload_destination, public_video_url,
                    updates, db, cleanup_runs >>

\* supabase_service.py lines 24-55: the public URL of the destination, or
\* None (no client, a response without fullPath, any exception).
upload_to_supabase_storage(dest, stored) ==
    IF stored THEN Some(PublicUrl(dest)) ELSE None

\* Mutant of Upload: the returned URL is not checked.
Upload_NoUrlCheck ==
    /\ pc = "upload"
    /\ upload_destination' = Some(SupabaseDestinationPath(user_id, video_id))
    /\ \E stored \in BOOLEAN :
          /\ public_video_url' =
                upload_to_supabase_storage(Val(upload_destination'), stored)
          /\ Invoke("upload", ~IsNone(public_video_url'))
    /\ pc' = "complete"
    /\ UNCHANGED << fleet, segmenter, zoompan >>
    /\ UNCHANGED << request, temp_dir_exists, dl, successfully_downloaded_images,
                    successfully_downloaded_audio, audio_duration_seconds,
                    actual_slideshow_duration, actual_zoom_duration,
                    filelist_part1, last_image_path, video_parts_to_concat,
                    concat_list, combined, ffmpeg_command_final, error, updates,
                    db, cleanup_runs >>

\* Lines 455-461: upload; no URL raises RuntimeError.
Upload ==
    /\ pc = "upload"
    /\ upload_destination' = Some(SupabaseDestinationPath(user_id, video_id))
    /\ \E stored \in BOOLEAN :
          /\ public_video_url' =
                upload_to_supabase_storage(Val(upload_destination'), stored)
          /\ Invoke("upload", ~IsNone(public_video_url'))
          /\ IF IsNone(public_video_url')
             THEN Raise(MsgUpload)
             ELSE /\ pc' = "complete"
                  /\ error' = error
    /\ UNCHANGED << fleet, segmenter, zoompan >>
    /\ UNCHANGED << request, temp_dir_exists, dl, successfully_downloaded_images,
                    successfully_downloaded_audio, audio_duration_seconds,
                    actual_slideshow_duration, actual_zoom_duration,
                    filelist_part1, last_image_path, video_parts_to_concat,
                    concat_list, combined, ffmpeg_command_final, updates, db,
                    cleanup_runs >>

\* Elapsed minutes, round(seconds / 60, 2): sampled.
MinutesTaken == {0, 3}

\* Mutant of Complete: a statement after the "completed" update raises
\* inside the try block.
Complete_RaisesAfterUpdate ==
    /\ pc = "complete"
    /\ \E mins \in MinutesTaken, executed \in BOOLEAN :
          update_video_record_status(
              UpdateCall("completed", public_video_url, None, Some(mins)), executed)
    /\ Raise("ValueError")
    /\ UNCHANGED << fleet, segmenter, zoompan >>
    /\ UNCHANGED << request, temp_dir_exists, dl, successfully_downloaded_images,
                    successfully_downloaded_audio, audio_duration_seconds,
                    actual_slideshow_duration, actual_zoom_duration,
                    filelist_part1, last_image_path, video_parts_to_concat,
                    concat_list, combined, ffmpeg_command_final,
                    upload_destination, public_video_url, calls,
                    cleanup_runs >>

\* Lines 463-474: the "completed" update.
Complete ==
    /\ pc = "complete"
    /\ \E mins \in MinutesTaken, executed \in BOOLEAN :
          update_video_record_status(
              UpdateCall("completed", public_video_url, None, Some(mins)), executed)
    /\ pc' = "finally"
    /\ UNCHANGED << fleet, segmenter, zoompan >>
    /\ UNCHANGED << request, temp_dir_exists, dl, successfully_downloaded_images,
                    successfully_downloaded_audio, audio_duration_seconds,
                    actual_slideshow_duration, actual_zoom_duration,
                    filelist_part1, last_image_path, video_parts_to_concat,
                    concat_list, combined, ffmpeg_command_final,
                    upload_destination, public_video_url, error, calls,
                    cleanup_runs >>

\* Lines 476-479: except Exception: the "failed" update with str(e).
Except ==
    /\ pc = "except"
    /\ \E executed \in BOOLEAN :
          update_video_record_status(
              UpdateCall("failed", None, error, None), executed)
    /\ pc' = "finally"
    /\ UNCHANGED << fleet, segmenter, zoompan >>
    /\ UNCHANGED << request, temp_dir_exists, dl, successfully_downloaded_images,
                    successfully_downloaded_audio, audio_duration_seconds,
                    actual_slideshow_duration, actual_zoom_duration,
                    filelist_part1, last_image_path, video_parts_to_concat,
                    concat_list, combined, ffmpeg_command_final,
                    upload_destination, public_video_url, error, calls,
                    cleanup_runs >>

\* file_utils.py lines 39-46: rmtree when the directory exists; an OSError
\* of rmtree is logged and the directory stays.
cleanup_dir(exists, removed) == IF exists THEN ~removed ELSE FALSE

\* Mutant of Finally: the finally clause does not call cleanup_dir.
Finally_NoCleanup ==
    /\ pc = "finally"
    /\ pc' = "done"
    /\ UNCHANGED << fleet, segmenter, zoompan >>
    /\ UNCHANGED << request, temp_dir_exists, dl, successfully_downloaded_images,
                    successfully_downloaded_audio, audio_duration_seconds,
                    actual_slideshow_duration, actual_zoom_duration,
                    filelist_part1, last_image_path, video_parts_to_concat,
                    concat_list, combined, ffmpeg_command_final,
                    upload_destination, public_video_url, error, calls,
                    updates, db, cleanup_runs >>

\* Lines 481-491: finally: cleanup_dir(temp_dir).
Finally ==
    /\ pc = "finally"
    /\ \E removed \in BOOLEAN :
          /\ (~temp_dir_exists => removed)
          /\ temp_dir_exists' = cleanup_dir(temp_dir_exists, removed)
    /\ cleanup_runs' = cleanup_runs + 1
    /\ pc' = "done"
    /\ UNCHANGED << fleet, segmenter, zoompan >>
    /\ UNCHANGED << request, dl, successfully_downloaded_images,
                    successfully_downloaded_audio, audio_duration_seconds,
                    actual_slideshow_duration, actual_zoom_duration,
                    filelist_part1, last_image_path, video_parts_to_concat,
                    concat_list, combined, ffmpeg_command_final,
                    upload_destination, public_video_url, error, calls,
                    updates, db >>

Next ==
    \/ Start
    \/ DownloadImage
    \/ DownloadAudio
    \/ GatherDownloads
    \/ ProbeAndPlan
    \/ SlideshowRender
    \/ ZoomRender
    \/ Concatenate
    \/ Mux
    \/ Upload
    \/ Complete
    \/ Except
    \/ Finally

Spec == Init /\ [][Next]_vars


\* ------------------------------------------------------------------ claims

Last(s) == s[Len(s)]
Called(op) == \E i \in 1..Len(calls) : calls[i].op = op
CalledOk(op) == \E i \in 1..Len(calls) : calls[i].op = op /\ calls[i].ok
CallFailed(op) == \E i \in 1..Len(calls) : calls[i].op = op /\ ~calls[i].ok
Issued(status) == \E i \in 1..Len(updates) : updates[i].status = status
Ended == pc \in {"finally", "done"}
\* gather has returned and the results were classified
Gathered == pc \notin {"start", "download"} /\ AllDownloadsDone(dl, image_count)
AnyImageOk == \E i \in 0..(image_count - 1) : dl.img[i] = "ok"
Planned == ~IsNone(actual_slideshow_duration)

\* C1: once the durations are planned: for a probed duration D > 0 the
\* slideshow lasts min(D, 60 s) and the zoom max(0, D - 60 s); when D is
\* unknown (audio not downloaded, or the probe returned nothing) or D <= 0
\* both are 60 s.  An audio that was not downloaded is never probed.
C1_TimingPlan ==
    /\ (~successfully_downloaded_audio => IsNone(audio_duration_seconds))
    /\ Planned =>
         LET D == audio_duration_seconds
             S == Val(actual_slideshow_duration)
             Z == Val(actual_zoom_duration)
         IN  IF IsNone(D) \/ Val(D) <= 0
             THEN S = 60000 /\ Z = 60000
             ELSE /\ S = (IF Val(D) <= 60000 THEN Val(D) ELSE 60000)
                  /\ Z = (IF Val(D) >= 60000 THEN Val(D) - 60000 ELSE 0)

\* C1 witness: a probed duration of 60.001 s was planned as 60 s of slideshow
\* and 1 ms of zoom.
C1_Witness ==
    /\ Planned
    /\ ~IsNone(audio_duration_seconds)
    /\ Val(audio_duration_seconds) = 60001
    /\ Val(actual_slideshow_duration) = 60000
    /\ Val(actual_zoom_duration) = 1

\* C2: when every image download failed, the job ends with the update
\* "failed" whose message says that no image could be downloaded, whatever
\* the audio download did, and no probe, render, concat, mux or upload call
\* is made; the row never shows "completed".
C2_NoImagesFails ==
    (Gathered /\ ~AnyImageOk) =>
        /\ calls = <<>>
        /\ pc \in {"except", "finally", "done"}
        /\ error = Some(MsgNoImages)
        /\ ~Issued("completed")
        /\ db.status # "completed"
        /\ (db.status = "failed" => db.error_message = Some(MsgNoImages))
        /\ Ended => /\ Last(updates).status = "failed"
                    /\ Last(updates).error_message = Some(MsgNoImages)

C2_Witness ==
    /\ pc = "done"
    /\ ~AnyImageOk
    /\ dl.audio = "ok"
    /\ Last(updates).status = "failed"
    /\ db.status = "failed"

\* C3: when the audio download failed and an image was downloaded, the audio
\* is never probed, no transcription or caption stage is run, the mux command
\* has the combined video as its only input and maps only 0:v (no audio
\* input, no audio mapping, no -shortest), and once the upload has returned
\* a URL the job ends with the update "completed".
C3_AudioLess ==
    (Gathered /\ dl.audio = "failed" /\ AnyImageOk) =>
        /\ \A i \in 1..Len(calls) :
              calls[i].op \in {"slideshow", "zoom", "concat", "mux", "upload"}
        /\ ~IsNone(ffmpeg_command_final) =>
              /\ Val(ffmpeg_command_final).inputs = <<"combined">>
              /\ Val(ffmpeg_command_final).maps = <<"0:v">>
              /\ ~Val(ffmpeg_command_final).shortest
        /\ (Ended /\ CalledOk("upload")) =>
              /\ Last(updates).status = "completed"
              /\ ~Issued("failed")

C3_Witness ==
    /\ pc = "done"
    /\ dl.audio = "failed"
    /\ \A i \in 0..(image_count - 1) : dl.img[i] = "ok"
    /\ CalledOk("mux")
    /\ Val(ffmpeg_command_final).inputs = <<"combined">>
    /\ Last(updates).status = "completed"
    /\ db.status = "completed"

\* C4: the job goes past the download phase exactly when an image download
\* succeeded; failed image downloads alone never raise, and the slideshow
\* file list holds exactly the downloaded images, in request order.
C4_ProceedsIffImage ==
    /\ (pc = "probe" \/ Planned) => Gathered
    /\ Gathered =>
          /\ (pc = "probe" \/ Planned) <=> AnyImageOk
          /\ AnyImageOk => error # Some(MsgNoImages)
    /\ Called("slideshow") =>
          /\ Len(filelist_part1) =
                Cardinality({i \in 0..(image_count - 1) : dl.img[i] = "ok"})
          /\ \A k \in 1..Len(filelist_part1) : dl.img[filelist_part1[k].file] = "ok"
          /\ \A k \in 1..(Len(filelist_part1) - 1) :
                filelist_part1[k].file < filelist_part1[k + 1].file

C4_Witness ==
    /\ pc = "done"
    /\ \E i \in 0..(image_count - 1) : dl.img[i] = "failed"
    /\ Len(filelist_part1) = 2
    /\ image_count = 3
    /\ Last(updates).status = "completed"

\* C5: a failed slideshow render, concatenation or mux is the last external
\* invocation of the job: the exception it raises carries the stage's
\* message, "completed" is never issued, and the last update is "failed".
StageMessage(op) ==
    IF op = "slideshow" THEN MsgPart1
    ELSE IF op = "concat" THEN MsgConcat
    ELSE MsgMux

C5_FatalStages ==
    \A i \in 1..Len(calls) :
        (calls[i].op \in {"slideshow", "concat", "mux"} /\ ~calls[i].ok) =>
            /\ i = Len(calls)
            /\ pc \in {"except", "finally", "done"}
            /\ error = Some(StageMessage(calls[i].op))
            /\ ~Issued("completed")
            /\ db.status # "completed"
            /\ Ended => Last(updates).status = "failed"

C5_Witness ==
    /\ pc = "done"
    /\ CallFailed("concat")
    /\ CalledOk("zoom")
    /\ Last(updates).status = "failed"
    /\ Last(updates).error_message = Some(MsgConcat)

\* C6: a failed zoom render raises nothing: the segment list stays the
\* slideshow alone, the combined file is a copy of it (the concat engine is
\* not invoked), and any later failure is that of a later stage.
C6_ZoomDegrades ==
    CallFailed("zoom") =>
        /\ video_parts_to_concat = <<"part1">>
        /\ ~Called("concat")
        /\ concat_list = <<>>
        /\ combined \in {"none", "copy"}
        /\ pc \in {"concat", "mux", "upload", "complete", "except", "finally", "done"}
        /\ ~IsNone(error) => Val(error) \in {MsgOSError, MsgMux, MsgUpload}

\* C6 witness: a job whose zoom render failed ended with "completed".
C6_Witness ==
    /\ pc = "done"
    /\ CallFailed("zoom")
    /\ combined = "copy"
    /\ Last(updates).status = "completed"
    /\ db.status = "completed"


\* C7 (as stated): once a job that raised (no image, a failed slideshow,
\* concat or mux, no upload URL, any other exception) has ended, its row in
\* the record store has status "failed" and an error message; it is not left
\* "processing" or "pending".
C7_FailedRecorded ==
    (pc = "done" /\ ~IsNone(error)) =>
        /\ db.status = "failed"
        /\ ~IsNone(db.error_message)

\* C8: "completed" is issued only after the upload returned a URL, and its
\* final_video_url is that URL, the public URL of the destination key
\* user_{user_id}/video-{video_id}.mp4; an upload without a URL raises, and
\* "completed" is then never issued.
C8_CompletedAfterUpload ==
    /\ \A i \in 1..Len(updates) :
          updates[i].status = "completed" =>
              /\ CalledOk("upload")
              /\ ~IsNone(public_video_url)
              /\ updates[i].final_video_url = public_video_url
              /\ upload_destination =
                    Some(<<"user_", user_id, "/", <<"video-", video_id, ".mp4">>>>)
              /\ Val(public_video_url)[2] = Val(upload_destination)
    /\ CallFailed("upload") =>
          /\ IsNone(public_video_url)
          /\ ~Issued("completed")
          /\ db.status # "completed"
          /\ error = Some(MsgUpload)
          /\ Ended => Last(updates).status = "failed"
    /\ db.status = "completed" => db.final_video_url = public_video_url

C8_Witness ==
    /\ pc = "done"
    /\ Last(updates).status = "completed"
    /\ Last(updates).final_video_url = Some(PublicUrl(Val(upload_destination)))
    /\ db.final_video_url = public_video_url
    /\ user_id = "u2"

Terminal(status) == status \in {"completed", "failed"}

\* C9 (as stated): the first update of a run is "processing", then exactly
\* one terminal update follows and nothing after it.
C9_ProcessingThenOneTerminal ==
    /\ updates # <<>> => updates[1].status = "processing"
    /\ \A i \in 1..Len(updates) : Terminal(updates[i].status) => i = Len(updates)
    /\ pc = "done" => Len(updates) = 2 /\ Terminal(updates[2].status)

\* C9 (amended): "processing" is issued at most once and before any other
\* update (it is not issued at all when creating the workspace or the output
\* directory raises); a terminal update is the last update of the run, a run
\* that has ended has issued exactly one, and a row that shows a terminal
\* status shows the one that was issued, so it never changes from
\* "completed" to "failed" or back.
C9_TerminalOnce ==
    /\ \A i \in 1..Len(updates) :
          /\ updates[i].status = "processing" => i = 1
          /\ Terminal(updates[i].status) => i = Len(updates)
          /\ updates[i].status \in {"processing", "completed", "failed"}
    /\ Len(updates) <= 2
    /\ Ended => updates # <<>> /\ Terminal(Last(updates).status)
    /\ ~Ended => ~Issued("completed") /\ ~Issued("failed")
    /\ (updates # <<>> /\ updates[1].status # "processing") =>
          error = Some(MsgOSError) /\ calls = <<>>
    /\ Terminal(db.status) => db.status = Last(updates).status

C9_Witness ==
    /\ pc = "done"
    /\ Len(updates) = 2
    /\ updates[1].status = "processing"
    /\ updates[2].status = "completed"
    /\ db.status = "completed"

\* C10 (as stated): when the run has ended the workspace directory does not
\* exist, on every exit path.
C10_WorkspaceRemoved ==
    pc = "done" => ~temp_dir_exists


\* C11: the download tasks of a job end one by one in any order; a task that
\* ends changes no other task's result, a task still running can always end
\* with success whatever its siblings did, and gather returns (the results
\* are classified, any later stage starts) only when every task has ended.
C11_StatePart ==
    /\ ( \/ pc \in {"probe", "slideshow", "zoom", "concat", "mux", "upload", "complete"}
         \/ calls # <<>>
         \/ successfully_downloaded_images # <<>>
         \/ successfully_downloaded_audio
         \/ error = Some(MsgNoImages) ) => AllDownloadsDone(dl, image_count)
    /\ pc = "download" =>
          /\ \A i \in 0..(image_count - 1) :
                dl.img[i] = "pending" => ENABLED (DownloadImage /\ dl'.img[i] = "ok")
          /\ dl.audio = "pending" => ENABLED (DownloadAudio /\ dl'.audio = "ok")
          /\ ~AllDownloadsDone(dl, image_count) => ~ENABLED GatherDownloads

C11_StepPart ==
    /\ \A i \in 0..(image_count - 1) :
          dl'.img[i] # dl.img[i] =>
              /\ dl.img[i] = "pending"
              /\ dl'.audio = dl.audio
              /\ \A j \in 0..(image_count - 1) : j # i => dl'.img[j] = dl.img[j]
    /\ dl'.audio # dl.audio => dl.audio = "pending" /\ dl'.img = dl.img

C11_DownloadsFanIn == [] C11_StatePart /\ [][C11_StepPart]_vars

\* C11 witness: an image download has failed while the audio download and
\* another image download are still running.
C11_Witness ==
    /\ pc = "download"
    /\ image_count >= 2
    /\ dl.img[0] = "failed"
    /\ dl.img[1] = "pending"
    /\ dl.audio = "pending"


\* Position of an external invocation in the pipeline.
StageRank(op) ==
    CASE op = "probe"     -> 1
      [] op = "slideshow" -> 2
      [] op = "zoom"      -> 3
      [] op = "concat"    -> 4
      [] op = "mux"       -> 5
      [] op = "upload"    -> 6

\* C12: the external invocations of a run happen one at a time in the order
\* probe, slideshow, zoom (if any), concat (if any), mux, upload: the log of
\* returned invocations is strictly increasing in that order, the mux is
\* preceded by the slideshow and the upload by the mux, and a step of the
\* orchestrator issues at most one invocation, which has returned when the
\* step ends (every invocation is awaited).
C12_StatePart ==
    /\ \A i, j \in 1..Len(calls) :
          i < j => StageRank(calls[i].op) < StageRank(calls[j].op)
    /\ Called("mux") => CalledOk("slideshow")
    /\ Called("upload") => CalledOk("mux")
    /\ Called("concat") => Called("zoom")

C12_StepPart ==
    \/ calls' = calls
    \/ /\ Len(calls') = Len(calls) + 1
       /\ SubSeq(calls', 1, Len(calls)) = calls

C12_SequentialInvocations == [] C12_StatePart /\ [][C12_StepPart]_vars

\* C12 witness: a run that made all six invocations.
C12_Witness ==
    /\ Len(calls) = 6
    /\ [i \in 1..6 |-> calls[i].op] =
          << "probe", "slideshow", "zoom", "concat", "mux", "upload" >>


\* C14: when the planned zoom duration is <= 0 (0 < D <= 60 s), the zoom
\* render is never invoked and no last image is selected, a rendered
\* slideshow is the only segment, it is copied (no concat call), and going
\* past the zoom stage raises nothing.
C14_NoZoomSegment ==
    (Planned /\ Val(actual_zoom_duration) <= 0) =>
        /\ ~Called("zoom")
        /\ pc # "zoom"
        /\ IsNone(last_image_path)
        /\ ~Called("concat")
        /\ concat_list = <<>>
        /\ error # Some(MsgConcat)
        /\ CalledOk("slideshow") => video_parts_to_concat = << "part1" >>
        /\ (CalledOk("slideshow") /\ pc = "concat") => IsNone(error)
        /\ pc \in {"mux", "upload", "complete"} => combined = "copy"

\* C14 witness: a job with a probed audio of at most 60 s completed from its
\* single copied segment.
C14_Witness ==
    /\ Planned
    /\ ~IsNone(audio_duration_seconds)
    /\ Val(audio_duration_seconds) > 0
    /\ Val(actual_zoom_duration) = 0
    /\ video_parts_to_concat = << "part1" >>
    /\ combined = "copy"
    /\ Issued("completed")


\* Number of invocations of op made so far.
CallCount(op) == Cardinality({ i \in 1..Len(calls) : calls[i].op = op })

C16_PerImageDuration ==
    filelist_part1 # <<>> =>
        LET N == Len(successfully_downloaded_images)
            S == Val(actual_slideshow_duration) * 1000
        IN  /\ N = Cardinality({ i \in 0..(image_count - 1) : dl.img[i] = "ok" })
            /\ Len(filelist_part1) = N
            /\ \A k \in 1..N :
                  LET d == filelist_part1[k].duration
                  IN  /\ filelist_part1[k].file = successfully_downloaded_images[k]
                      /\ d >= 10000
                      /\ IF S >= 10000 * N
                         THEN 2 * (d * N - S) <= N /\ 2 * (S - d * N) <= N
                         ELSE d = 10000

\* C16 witness: three images share a slideshow of 59.999 s, 19.999667 s each.
C16_Witness ==
    /\ Len(filelist_part1) = 3
    /\ Val(actual_slideshow_duration) = 59999
    /\ \A k \in 1..3 : filelist_part1[k].duration = 19999667


\* ------------------------------------------------ the record-store update
\* update_video_record_status applied to arbitrary calls on one row.

MaxUpdates == 2

Statuses == {"processing", "completed", "failed"}

\* The variables of the orchestrator while no job runs; `at` names the
\* component under study.
Idle(at) ==
    /\ pc = at
    /\ video_id = "v1"
    /\ user_id = "u1"
    /\ image_count = 1
    /\ use_hq_zoom = TRUE
    /\ temp_dir_exists = FALSE
    /\ dl = AllPending(1)
    /\ successfully_downloaded_images = <<>>
    /\ successfully_downloaded_audio = FALSE
    /\ audio_duration_seconds = None
    /\ actual_slideshow_duration = None
    /\ actual_zoom_duration = None
    /\ filelist_part1 = <<>>
    /\ last_image_path = None
    /\ video_parts_to_concat = <<>>
    /\ concat_list = <<>>
    /\ combined = "none"
    /\ ffmpeg_command_final = None
    /\ upload_destination = None
    /\ public_video_url = None
    /\ error = None
    /\ calls = <<>>
    /\ updates = <<>>
    /\ db = [ status |-> "pending", final_video_url |-> None,
              error_message |-> None, minutes_taken |-> None ]
    /\ cleanup_runs = 0

InitStore == Idle("store") /\ NoFleet /\ NoSegmenter /\ NoZoompan

\* supabase_service.py lines 57-99 called with any arguments.
StoreUpdate ==
    /\ pc = "store"
    /\ Len(updates) < MaxUpdates
    /\ \E status \in Statuses,
          url \in {None, Some(PublicUrl("k1"))},
          err \in {None, Some(MsgMux)},
          mins \in {None} \cup { Some(m) : m \in MinutesTaken },
          executed \in BOOLEAN :
          update_video_record_status(UpdateCall(status, url, err, mins), executed)
    /\ UNCHANGED << fleet, segmenter, zoompan >>
    /\ UNCHANGED << pc, request, temp_dir_exists, dl,
                    successfully_downloaded_images,
                    successfully_downloaded_audio, audio_duration_seconds,
                    actual_slideshow_duration, actual_zoom_duration,
                    filelist_part1, last_image_path, video_parts_to_concat,
                    concat_list, combined, ffmpeg_command_final,
                    upload_destination, public_video_url, error, calls,
                    cleanup_runs >>

NextStore == StoreUpdate

SpecStore == InitStore /\ [][NextStore]_vars

\* C17: the payload of an update always carries the status and carries
\* final_video_url, error_message, minutes_taken only when they are not None;
\* an update that reaches the row writes the status and the non-None fields
\* and leaves a stored final_video_url, error_message or minutes_taken as it
\* was when the call passes None (an update whose execute() raised leaves the
\* whole row as it was).
C17_Step ==
    updates' # updates =>
        LET u == Last(updates')
            OptionalFields == {"final_video_url", "error_message", "minutes_taken"}
        IN  /\ UpdateData(u).status = Some(u.status)
            /\ \A f \in OptionalFields : UpdateData(u)[f] = u[f]
            /\ \/ db' = db
               \/ /\ db'.status = u.status
                  /\ \A f \in OptionalFields :
                        db'[f] = IF IsNone(u[f]) THEN db[f] ELSE u[f]

C17_NonNullFieldsOnly == [][C17_Step]_vars

\* C17 witness: a second update with None for the three optional fields
\* changed the status and the row still holds the values of the first.
C17_Witness ==
    /\ pc = "store"
    /\ Len(updates) = 2
    /\ ~IsNone(updates[1].final_video_url)
    /\ ~IsNone(updates[1].error_message)
    /\ ~IsNone(updates[1].minutes_taken)
    /\ IsNone(updates[2].final_video_url)
    /\ IsNone(updates[2].error_message)
    /\ IsNone(updates[2].minutes_taken)
    /\ updates[2].status # updates[1].status
    /\ db.status = updates[2].status
    /\ db.final_video_url = updates[1].final_video_url
    /\ db.error_message = updates[1].error_message
    /\ db.minutes_taken = updates[1].minutes_taken


\* ---------------------------------------------------------- concurrent jobs
\* Several create_video_task coroutines on one event loop, seen through their
\* workspaces under settings.temp_dir_base.

MaxJobs == 2

Jobs == 1..MaxJobs

\* A video id as << video_id[:8], the remaining characters >>.
JobVideoIds == { << "1b4e28ba", "5d1c" >>, << "1b4e28ba", "77e0" >>,
                 << "9f8c3d21", "5d1c" >> }

\* Values of uuid.uuid4().hex[:6].
HexSuffixes == { "a3f1c2", "0b9d4e" }

\* Line 28: f"{video_id[:8]}-{uuid.uuid4().hex[:6]}".
unique_suffix(vid, hex) == << vid[1], hex >>

\* Line 30: os.path.join(settings.temp_dir_base, unique_suffix).
TempDir(vid, hex) == << "temp-video-processing", unique_suffix(vid, hex) >>

\* main.py lines 106-113: the tasks are queued, each with the id of its row.
InitJobs ==
    /\ Idle("jobs")
    /\ NoSegmenter
    /\ NoZoompan
    /\ jobs \in [ Jobs -> { [ phase |-> "queued", video_id |-> v,
                              temp_dir |-> None, outcome |-> "none" ] :
                            v \in JobVideoIds } ]
    /\ temp_dirs = {}
    /\ temp_files = {}

\* Lines 28-40: the path is computed and ensure_dir creates the directory
\* unless it exists already.
JobStart(j) ==
    /\ pc = "jobs"
    /\ jobs[j].phase = "queued"
    /\ \E hex \in HexSuffixes :
          LET d == TempDir(jobs[j].video_id, hex)
          IN  /\ jobs' = [jobs EXCEPT ![j].phase = "running",
                                      ![j].temp_dir = Some(d)]
              /\ temp_dirs' = temp_dirs \cup {d}
    /\ UNCHANGED << temp_files, segmenter, zoompan >>
    /\ UNCHANGED << pc, request, temp_dir_exists, dl,
                    successfully_downloaded_images,
                    successfully_downloaded_audio, audio_duration_seconds,
                    actual_slideshow_duration, actual_zoom_duration,
                    filelist_part1, last_image_path, video_parts_to_concat,
                    concat_list, combined, ffmpeg_command_final,
                    upload_destination, public_video_url, error, calls,
                    updates, db, cleanup_runs >>

\* Lines 481-483 with file_utils.py lines 39-46: rmtree of the directory when
\* it exists; an OSError (removed = FALSE) is logged and the tree stays.
JobCleanup(j, removed) ==
    LET d == Val(jobs[j].temp_dir)
    IN  IF d \in temp_dirs /\ removed
        THEN /\ temp_dirs' = temp_dirs \ {d}
             /\ temp_files' = { f \in temp_files : f[1] # d }
        ELSE UNCHANGED << temp_dirs, temp_files >>

\* Lines 44-453: a running job writes a file of its own into temp_dir (a
\* download, a file list, a rendered part).  When the directory is gone the
\* write raises; the except and finally clauses end the job as failed.
JobWrite(j) ==
    /\ pc = "jobs"
    /\ jobs[j].phase = "running"
    /\ LET d == Val(jobs[j].temp_dir)
       IN  IF d \in temp_dirs
           THEN /\ temp_files' = temp_files \cup { << d, j >> }
                /\ UNCHANGED << jobs, temp_dirs >>
           ELSE /\ jobs' = [jobs EXCEPT ![j].phase = "done",
                                        ![j].outcome = "failed"]
                /\ UNCHANGED << temp_dirs, temp_files >>
    /\ UNCHANGED << segmenter, zoompan >>
    /\ UNCHANGED << pc, request, temp_dir_exists, dl,
                    successfully_downloaded_images,
                    successfully_downloaded_audio, audio_duration_seconds,
                    actual_slideshow_duration, actual_zoom_duration,
                    filelist_part1, last_image_path, video_parts_to_concat,
                    concat_list, combined, ffmpeg_command_final,
                    upload_destination, public_video_url, error, calls,
                    updates, db, cleanup_runs >>

\* Lines 463-483: the job ends, completed or failed, and its finally clause
\* removes temp_dir.
JobFinish(j) ==
    /\ pc = "jobs"
    /\ jobs[j].phase = "running"
    /\ \E outcome \in {"completed", "failed"}, removed \in BOOLEAN :
          /\ jobs' = [jobs EXCEPT ![j].phase = "done", ![j].outcome = outcome]
          /\ JobCleanup(j, removed)
    /\ UNCHANGED << segmenter, zoompan >>
    /\ UNCHANGED << pc, request, temp_dir_exists, dl,
                    successfully_downloaded_images,
                    successfully_downloaded_audio, audio_duration_seconds,
                    actual_slideshow_duration, actual_zoom_duration,
                    filelist_part1, last_image_path, video_parts_to_concat,
                    concat_list, combined, ffmpeg_command_final,
                    upload_destination, public_video_url, error, calls,
                    updates, db, cleanup_runs >>

NextJobs ==
    \/ \E j \in Jobs : JobStart(j)
    \/ \E j \in Jobs : JobWrite(j)
    \/ \E j \in Jobs : JobFinish(j)

SpecJobs == InitJobs /\ [][NextJobs]_vars

Running(j) == jobs[j].phase = "running"

\* C13 (as stated): two running jobs never have the same temp_dir, so the
\* directory of a running job exists and holds no file written by another
\* job.
C13_DisjointWorkspaces ==
    \A j \in Jobs :
        Running(j) =>
            /\ \A k \in Jobs :
                  (k # j /\ Running(k)) => jobs[k].temp_dir # jobs[j].temp_dir
            /\ Val(jobs[j].temp_dir) \in temp_dirs
            /\ \A f \in temp_files : f[1] = Val(jobs[j].temp_dir) => f[2] = j


\* ------------------------------------------------------ subtitle segmenter
\* srt_utils.py: _blocking_reformat_srt_file_timed and its helpers.  A block
\* is the sequence of its lines: the index line (a string), the timestamp
\* line (a record of the two timestamp strings and what separates them) and
\* the text lines (each the sequence of its words).  A timestamp string is
\* << h, m, s, ms >>; a malformed one is <<>>.  Times are integers in ms.

MaxWords == 4
MaxK == 2

\* srt_utils.py line 4, the default max_words (settings.srt_max_words_per_line
\* has the same value).
MAX_WORDS_PER_LINE == 4

\* srt_utils.py line 75.
min_segment_duration_ms == 200

\* srt_utils.py lines 6-15.
parse_timestamp_to_ms(ts) ==
    IF Len(ts) = 4
    THEN ts[1] * 3600 * 1000 + ts[2] * 60 * 1000 + ts[3] * 1000 + ts[4]
    ELSE 0

\* srt_utils.py lines 17-29.
format_ms_to_timestamp(ms_in) ==
    LET total_ms == IF ms_in < 0 THEN 0 ELSE ms_in
        ms == total_ms % 1000
        total_seconds == total_ms \div 1000
        sec == total_seconds % 60
        total_minutes == total_seconds \div 60
        m == total_minutes % 60
        h == total_minutes \div 60
    IN  << h, m, sec, ms >>

\* Mutant of RoundHalfEven: truncation.
RoundHalfEven_Floor(num, den) == num \div den

\* int(round(x)) of Python for x = num / den >= 0: to nearest, ties to even.
RoundHalfEven(num, den) ==
    LET q == num \div den
        r == num % den
    IN  IF 2 * r < den THEN q
        ELSE IF 2 * r > den THEN q + 1
        ELSE IF q % 2 = 0 THEN q ELSE q + 1

\* Concatenation of the lines' words: " ".join(...) followed by split().
RECURSIVE JoinWords(_)
JoinWords(lines) ==
    IF lines = <<>> THEN <<>> ELSE Head(lines) \o JoinWords(Tail(lines))

\* Chunks of at most k words, in order.
RECURSIVE ChunkWords(_, _)
ChunkWords(words, k) ==
    IF Len(words) = 0 THEN <<>>
    ELSE IF Len(words) <= k THEN << words >>
    ELSE << SubSeq(words, 1, k) >> \o ChunkWords(SubSeq(words, k + 1, Len(words)), k)

\* Mutant of split_text_into_segments: a text without lines gives one
\* segment without words.
split_text_into_segments_OneEmpty(original_text_lines, k) ==
    LET words == JoinWords(original_text_lines)
    IN  IF words = <<>> THEN << <<>> >>
        ELSE IF k < 1 THEN << words >>
        ELSE ChunkWords(words, k)

\* srt_utils.py lines 31-53.  [""] is one segment without words.
split_text_into_segments(original_text_lines, k) ==
    IF original_text_lines = <<>> THEN <<>>
    ELSE LET words == JoinWords(original_text_lines)
         IN  IF words = <<>> THEN << <<>> >>
             ELSE IF k < 1 THEN << words >>
             ELSE ChunkWords(words, k)


\* Mutant of CueBlock: the text is written as a single line.
CueBlock_OneLine(index, timestamp_line, text_lines) ==
    << ToString(index), timestamp_line, JoinWords(text_lines) >>

\* f"{index}\n{timestamp_line}\n{text}\n": an output block as its lines.
CueBlock(index, timestamp_line, text_lines) ==
    << ToString(index), timestamp_line >> \o text_lines

\* f"{format_ms_to_timestamp(a)} --> {format_ms_to_timestamp(b)}".
NewTimestampLine(a, b) ==
    [ start |-> format_ms_to_timestamp(a), sep |-> " --> ",
      end |-> format_ms_to_timestamp(b) ]

\* Mutant of SegmentEnd: the minimum duration is twice as long.
SegmentEnd_LongFloor(i, n, cur, s, e) ==
    LET end0 == IF i = n THEN e * n ELSE cur + (e - s)
        end1 == IF end0 < cur + 2 * min_segment_duration_ms * n
                THEN cur + 2 * min_segment_duration_ms * n
                ELSE end0
    IN  IF end1 > e * n THEN e * n ELSE end1

\* Mutant of SegmentEnd: the end is not capped at the original end.
SegmentEnd_NoCap(i, n, cur, s, e) ==
    LET end0 == IF i = n THEN e * n ELSE cur + (e - s)
    IN  IF end0 < cur + min_segment_duration_ms * n
        THEN cur + min_segment_duration_ms * n
        ELSE end0

\* Mutant of SegmentEnd: no minimum duration.
SegmentEnd_NoFloor(i, n, cur, s, e) ==
    LET end0 == IF i = n THEN e * n ELSE cur + (e - s)
    IN  IF end0 > e * n THEN e * n ELSE end0

\* srt_utils.py lines 130-143: the end of segment i (1-based) of n that
\* starts at cur, for a cue from s to e.  cur and the result are in units of
\* 1/n ms, which keeps duration / n exact.
SegmentEnd(i, n, cur, s, e) ==
    LET end0 == IF i = n THEN e * n ELSE cur + (e - s)
        end1 == IF end0 < cur + min_segment_duration_ms * n
                THEN cur + min_segment_duration_ms * n
                ELSE end0
    IN  IF end1 > e * n THEN e * n ELSE end1

\* Mutant of TimedSegments: the cursor advances by the equal share, not to
\* the end of the segment written.
RECURSIVE TimedSegments_CursorByShare(_, _, _, _, _, _, _)
TimedSegments_CursorByShare(i, cur, acc, segs, s, e, idx) ==
    LET n == Len(segs)
        segment_end == SegmentEnd(i, n, cur, s, e)
    IN  IF i > n THEN acc
        ELSE IF cur >= segment_end
        THEN TimedSegments_CursorByShare(i + 1,
                                         IF i = n THEN e * n ELSE segment_end,
                                         acc, segs, s, e, idx)
        ELSE LET written ==
                    Append(acc,
                           CueBlock(idx + Len(acc),
                                    NewTimestampLine(RoundHalfEven(cur, n),
                                                     RoundHalfEven(segment_end, n)),
                                    << segs[i] >>))
             IN  IF segment_end >= e * n /\ i < n
                 THEN written
                 ELSE TimedSegments_CursorByShare(i + 1, cur + (e - s), written,
                                                  segs, s, e, idx)

\* Mutant of TimedSegments: every segment is written, whether or not time is
\* left for it.
RECURSIVE TimedSegments_WriteAll(_, _, _, _, _, _, _)
TimedSegments_WriteAll(i, cur, acc, segs, s, e, idx) ==
    LET n == Len(segs)
        segment_end == SegmentEnd(i, n, cur, s, e)
    IN  IF i > n THEN acc
        ELSE TimedSegments_WriteAll(
                 i + 1, segment_end,
                 Append(acc,
                        CueBlock(idx + Len(acc),
                                 NewTimestampLine(RoundHalfEven(cur, n),
                                                  RoundHalfEven(segment_end, n)),
                                 << segs[i] >>)),
                 segs, s, e, idx)

\* srt_utils.py lines 129-163: the loop over the text segments from segment
\* i on; acc holds the blocks written so far for this cue, numbered from idx.
RECURSIVE TimedSegments(_, _, _, _, _, _, _)
TimedSegments(i, cur, acc, segs, s, e, idx) ==
    LET n == Len(segs)
        segment_end == SegmentEnd(i, n, cur, s, e)
    IN  IF i > n THEN acc
        ELSE IF cur >= segment_end
        THEN TimedSegments(i + 1, IF i = n THEN e * n ELSE segment_end,
                           acc, segs, s, e, idx)
        ELSE LET written ==
                    Append(acc,
                           CueBlock(idx + Len(acc),
                                    NewTimestampLine(RoundHalfEven(cur, n),
                                                     RoundHalfEven(segment_end, n)),
                                    << segs[i] >>))
             IN  IF segment_end >= e * n /\ i < n
                 THEN written
                 ELSE TimedSegments(i + 1, segment_end, written, segs, s, e, idx)

\* str.isdigit() of the stripped index line.
IsDigits(line) == line \in { ToString(k) : k \in 0..99 }

\* Mutant of ReformatBlock: a multi-segment cue is written as one cue with
\* its whole text.
ReformatBlock_NoSplit(block, k, idx) ==
    IF Len(block) < 2 \/ ~IsDigits(block[1]) \/ block[2].sep # " --> "
    THEN [ out |-> << block >>, next |-> idx ]
    ELSE [ out |-> << CueBlock(idx, block[2],
                               << JoinWords(SubSeq(block, 3, Len(block))) >>) >>,
           next |-> idx + 1 ]

\* srt_utils.py lines 77-163: one iteration of the loop over the blocks: the
\* blocks appended to output_srt_blocks and the next new_subtitle_index.
ReformatBlock(block, k, idx) ==
    IF Len(block) = 0 THEN [ out |-> <<>>, next |-> idx ]
    ELSE IF Len(block) < 2 THEN [ out |-> << block >>, next |-> idx ]
    ELSE LET timestamp_line == block[2]
             original_text_lines == SubSeq(block, 3, Len(block))
             original_start_ms == parse_timestamp_to_ms(timestamp_line.start)
             original_end_ms == parse_timestamp_to_ms(timestamp_line.end)
             original_duration_ms == original_end_ms - original_start_ms
             text_segments == split_text_into_segments(original_text_lines, k)
             num_segments == Len(text_segments)
         IN  IF ~IsDigits(block[1]) \/ timestamp_line.sep \notin {" --> ", "-->"}
             THEN [ out |-> << block >>, next |-> idx ]
             ELSE IF timestamp_line.sep # " --> "
             THEN [ out |-> << block >>, next |-> idx ]
             ELSE IF original_duration_ms <= 0
             THEN [ out |-> << CueBlock(idx, timestamp_line, original_text_lines) >>,
                    next |-> idx + 1 ]
             ELSE IF num_segments = 0
                     \/ (num_segments = 1 /\ text_segments[1] = <<>>)
             THEN [ out |-> <<>>, next |-> idx ]
             ELSE IF num_segments = 1
             THEN [ out |-> << CueBlock(idx, timestamp_line, text_segments) >>,
                    next |-> idx + 1 ]
             ELSE LET written == TimedSegments(1, original_start_ms * num_segments,
                                               <<>>, text_segments,
                                               original_start_ms, original_end_ms,
                                               idx)
                  IN  [ out |-> written, next |-> idx + Len(written) ]


\* Inputs of the segmenter: cue starts and durations (ms), texts of up to
\* MaxWords words on one or two lines (a line without words is blank).
SrtStarts == {0, 1500, 59900}
SrtDurations == {-500, 0, 100, 300, 500, 601, 1001, 4000}

Words(a, b) == [ i \in 1..(b - a + 1) |-> a + i - 1 ]

TextSamples ==
    { <<>>, << <<>> >> }
    \cup { << Words(1, w) >> : w \in 1..MaxWords }
    \cup { << Words(1, 1), Words(2, w) >> : w \in 2..MaxWords }
    \cup { << Words(1, 2 * MAX_WORDS_PER_LINE) >> }

TimestampLine(a, b) ==
    [ start |-> format_ms_to_timestamp(a), sep |-> " --> ",
      end |-> format_ms_to_timestamp(b) ]

CueBlocks ==
    { << "1", TimestampLine(c[1], c[1] + c[2]) >> \o text :
        c \in { x \in SrtStarts \X SrtDurations : x[1] + x[2] >= 0 },
        text \in TextSamples }

\* Blocks that are not well-formed cues: a single line, an index line that is
\* not a number, a timestamp line without arrow or without the spaces around
\* it, an unreadable start timestamp, seconds written as 61.
OddBlocks ==
    { << "junk" >>,
      << "x", TimestampLine(0, 1000), Words(1, 3) >>,
      << "1", [ TimestampLine(0, 1000) EXCEPT !.sep = "->" ], Words(1, 3) >>,
      << "1", [ TimestampLine(0, 1000) EXCEPT !.sep = "-->" ], Words(1, 3) >>,
      << "1", [ TimestampLine(0, 2000) EXCEPT !.start = <<>> ], Words(1, 3) >>,
      << "1", [ TimestampLine(0, 0) EXCEPT !.end = << 0, 0, 61, 0 >> ], Words(1, 3) >> }

FollowBlocks ==
    { <<>>,
      << "junk" >>,
      << "2", TimestampLine(60000, 60000), Words(1, 1) >>,
      << "2", TimestampLine(60000, 64000), Words(1, 3) >> }

SrtFiles ==
    { << b >> : b \in CueBlocks \cup OddBlocks }
    \cup { << b, f >> : b \in CueBlocks \cup OddBlocks, f \in FollowBlocks }
    \cup { << b, << "junk" >>, << "3", TimestampLine(60000, 64000), Words(1, 3) >> >> :
              b \in CueBlocks \cup OddBlocks }

\* srt_utils.py lines 60-75: the file is read and split into blocks.
InitSrt ==
    /\ Idle("srt")
    /\ NoFleet
    /\ NoZoompan
    /\ srt_blocks \in SrtFiles
    /\ max_words \in (1..MaxK) \cup {MAX_WORDS_PER_LINE}
    /\ srt_pos = 1
    /\ new_subtitle_index = 1
    /\ output_srt_blocks = <<>>

\* Mutant of ProcessBlock: the numbering starts again at 1 for every block.
ProcessBlock_NumberPerCue ==
    /\ pc \in {"srt", "srt_again"}
    /\ srt_pos <= Len(srt_blocks)
    /\ LET r == ReformatBlock(srt_blocks[srt_pos], max_words, new_subtitle_index)
       IN  /\ output_srt_blocks' = output_srt_blocks \o r.out
           /\ new_subtitle_index' = 1
    /\ srt_pos' = srt_pos + 1
    /\ UNCHANGED << srt_blocks, max_words, fleet, zoompan >>
    /\ UNCHANGED << pc, request, temp_dir_exists, dl,
                    successfully_downloaded_images,
                    successfully_downloaded_audio, audio_duration_seconds,
                    actual_slideshow_duration, actual_zoom_duration,
                    filelist_part1, last_image_path, video_parts_to_concat,
                    concat_list, combined, ffmpeg_command_final,
                    upload_destination, public_video_url, error, calls,
                    updates, db, cleanup_runs >>

\* srt_utils.py lines 77-163: one iteration of the loop over the blocks.
ProcessBlock ==
    /\ pc \in {"srt", "srt_again"}
    /\ srt_pos <= Len(srt_blocks)
    /\ LET r == ReformatBlock(srt_blocks[srt_pos], max_words, new_subtitle_index)
       IN  /\ output_srt_blocks' = output_srt_blocks \o r.out
           /\ new_subtitle_index' = r.next
    /\ srt_pos' = srt_pos + 1
    /\ UNCHANGED << srt_blocks, max_words, fleet, zoompan >>
    /\ UNCHANGED << pc, request, temp_dir_exists, dl,
                    successfully_downloaded_images,
                    successfully_downloaded_audio, audio_duration_seconds,
                    actual_slideshow_duration, actual_zoom_duration,
                    filelist_part1, last_image_path, video_parts_to_concat,
                    concat_list, combined, ffmpeg_command_final,
                    upload_destination, public_video_url, error, calls,
                    updates, db, cleanup_runs >>

\* srt_utils.py lines 165-178: the blocks are joined and written; the
\* function returns True, or False when the write raises.
WriteOutput ==
    /\ pc \in {"srt", "srt_again"}
    /\ srt_pos > Len(srt_blocks)
    /\ \E ok \in BOOLEAN :
          pc' = IF pc = "srt"
                THEN (IF ok THEN "srt_written" ELSE "srt_write_failed")
                ELSE (IF ok THEN "srt_again_written" ELSE "srt_again_write_failed")
    /\ UNCHANGED << segmenter, fleet, zoompan >>
    /\ UNCHANGED << request, temp_dir_exists, dl,
                    successfully_downloaded_images,
                    successfully_downloaded_audio, audio_duration_seconds,
                    actual_slideshow_duration, actual_zoom_duration,
                    filelist_part1, last_image_path, video_parts_to_concat,
                    concat_list, combined, ffmpeg_command_final,
                    upload_destination, public_video_url, error, calls,
                    updates, db, cleanup_runs >>

\* Number of "\n" that end the string appended for a block: a block passed
\* through is the input block, which ends with none; a written cue is
\* f"{index}\n{timestamp_line}\n{text}\n", which ends with one, and with two
\* when the text is the empty string.
TrailingNewlines(b) ==
    IF ~(Len(b) >= 2 /\ IsDigits(b[1]) /\ b[2].sep = " --> ") THEN 0
    ELSE IF Len(b) = 2 THEN 2
    ELSE 1

\* The text lines without words at the end of a block removed (str.strip()).
RECURSIVE StripTrailingBlankLines(_)
StripTrailingBlankLines(b) ==
    IF Len(b) >= 3 /\ b[Len(b)] = <<>>
    THEN StripTrailingBlankLines(SubSeq(b, 1, Len(b) - 1))
    ELSE b

\* srt_utils.py lines 165-167 followed by lines 61-72 of a second call: the
\* blocks are joined with "\n\n", the result is stripped and written, then
\* read, stripped and split at "\n\n".  Between two blocks there are the
\* trailing newlines of the first plus two: three leave a "\n" in front of
\* the second block (its first line is then empty), four give an empty block
\* between them.
RECURSIVE ReadBack(_, _)
ReadBack(out, carried) ==
    IF out = <<>> THEN <<>>
    ELSE LET b == IF Len(out) = 1 THEN StripTrailingBlankLines(Head(out))
                  ELSE Head(out)
             block == IF carried = 1 THEN << "" >> \o b ELSE b
             between == IF carried = 2 THEN << <<>> >> ELSE <<>>
         IN  between \o << block >> \o ReadBack(Tail(out), TrailingNewlines(Head(out)))

\* The segmenter is called again on the file it wrote, with the same
\* max_words.
Reread ==
    /\ pc = "srt_written"
    /\ pc' = "srt_again"
    /\ srt_blocks' = ReadBack(output_srt_blocks, 0)
    /\ srt_pos' = 1
    /\ new_subtitle_index' = 1
    /\ output_srt_blocks' = <<>>
    /\ UNCHANGED << max_words, fleet, zoompan >>
    /\ UNCHANGED << request, temp_dir_exists, dl,
                    successfully_downloaded_images,
                    successfully_downloaded_audio, audio_duration_seconds,
                    actual_slideshow_duration, actual_zoom_duration,
                    filelist_part1, last_image_path, video_parts_to_concat,
                    concat_list, combined, ffmpeg_command_final,
                    upload_destination, public_video_url, error, calls,
                    updates, db, cleanup_runs >>

NextSrt ==
    \/ ProcessBlock
    \/ WriteOutput
    \/ Reread

SpecSrt == InitSrt /\ [][NextSrt]_vars


\* The block handled by a ProcessBlock step, what the step appended for it,
\* and readings of both.
BlockStep == pc = "srt" /\ srt_pos' = srt_pos + 1
CueIn == srt_blocks[srt_pos]
Emitted ==
    SubSeq(output_srt_blocks', Len(output_srt_blocks) + 1, Len(output_srt_blocks'))
IsCue(b) == Len(b) >= 2 /\ IsDigits(b[1]) /\ b[2].sep = " --> "
CueStart(b) == parse_timestamp_to_ms(b[2].start)
CueEnd(b) == parse_timestamp_to_ms(b[2].end)
CueDuration(b) == CueEnd(b) - CueStart(b)
CueWords(b) == JoinWords(SubSeq(b, 3, Len(b)))
CeilDiv(a, b) == (a + b - 1) \div b
\* A cue of positive duration with at least one word is being reflowed.
ReflowStep ==
    BlockStep /\ IsCue(CueIn) /\ CueDuration(CueIn) > 0 /\ Len(CueWords(CueIn)) >= 1
Chunks == CeilDiv(Len(CueWords(CueIn)), max_words)

\* C18 (as stated): a cue of positive duration with W >= 1 words is emitted
\* as ceil(W / K) cues.
C18_ChunkCount == [][ReflowStep => Len(Emitted) = Chunks]_vars

\* C18 (amended): a cue of positive duration T ms with W >= 1 words is
\* emitted as min(ceil(W / K), ceil(T / 200)) cues, which is ceil(W / K)
\* exactly when T > 200 * (ceil(W / K) - 1); the cues carry the first chunks
\* of the text in order.
C18_ChunkCountWithinTime ==
    [][ReflowStep =>
          LET T == CueDuration(CueIn)
              expected == Min(Chunks, CeilDiv(T, min_segment_duration_ms))
          IN  /\ Len(Emitted) = expected
              /\ (Len(Emitted) = Chunks) <=> (T > min_segment_duration_ms * (Chunks - 1))
              /\ \A i \in 1..Len(Emitted) :
                    Emitted[i][3] =
                        split_text_into_segments(SubSeq(CueIn, 3, Len(CueIn)),
                                                 max_words)[i]]_vars

\* C18 witness: a 100 ms cue of two chunks was processed and one cue came out.
C18_Witness ==
    /\ srt_pos = 2
    /\ IsCue(srt_blocks[1])
    /\ CueDuration(srt_blocks[1]) = 100
    /\ CeilDiv(Len(CueWords(srt_blocks[1])), max_words) = 2
    /\ Len(output_srt_blocks) = 1

EmStart(o) == parse_timestamp_to_ms(o[2].start)
EmEnd(o) == parse_timestamp_to_ms(o[2].end)

\* C19 (as stated): every cue emitted for a reflowed cue lasts at least
\* 200 ms, except that a text of one chunk keeps the original duration.
C19_MinimumDuration ==
    [][ReflowStep =>
          IF Chunks = 1
          THEN Len(Emitted) = 1
               /\ EmEnd(Emitted[1]) - EmStart(Emitted[1]) = CueDuration(CueIn)
          ELSE \A i \in 1..Len(Emitted) :
                  EmEnd(Emitted[i]) - EmStart(Emitted[i]) >= min_segment_duration_ms]_vars

\* C19 (amended): a text of one chunk keeps the original timestamp line; of
\* the cues emitted for a text of several chunks every one but the last
\* emitted lasts at least 200 ms, the last emitted ends at the original end
\* and lasts more than 0 ms, and all of them last at least 200 ms when the
\* cue's duration is at least 200 ms times the number of chunks.
C19_MinimumDurationButLast ==
    [][ReflowStep =>
          IF Chunks = 1
          THEN Len(Emitted) = 1 /\ Emitted[1][2] = CueIn[2]
          ELSE /\ Len(Emitted) >= 1
               /\ \A i \in 1..(Len(Emitted) - 1) :
                     EmEnd(Emitted[i]) - EmStart(Emitted[i]) >= min_segment_duration_ms
               /\ EmEnd(Last(Emitted)) = CueEnd(CueIn)
               /\ EmEnd(Last(Emitted)) - EmStart(Last(Emitted)) > 0
               /\ CueDuration(CueIn) >= min_segment_duration_ms * Chunks =>
                     EmEnd(Last(Emitted)) - EmStart(Last(Emitted))
                        >= min_segment_duration_ms]_vars

\* C19 witness: a 300 ms cue of two chunks came out as a cue of 200 ms and a
\* last cue of 100 ms.
C19_Witness ==
    /\ srt_pos = 2
    /\ IsCue(srt_blocks[1])
    /\ CueDuration(srt_blocks[1]) = 300
    /\ Len(output_srt_blocks) = 2
    /\ EmEnd(output_srt_blocks[1]) - EmStart(output_srt_blocks[1]) = 200
    /\ EmEnd(output_srt_blocks[2]) - EmStart(output_srt_blocks[2]) = 100

\* C20: for a cue of positive duration that emits at least one cue, every
\* emitted interval lies within the original [start, end] and the last
\* emitted cue ends exactly at the original end, also when trailing chunks
\* were dropped.
C20_IntervalContainment ==
    [][(BlockStep /\ IsCue(CueIn) /\ CueDuration(CueIn) > 0 /\ Len(Emitted) >= 1) =>
          /\ \A i \in 1..Len(Emitted) :
                /\ CueStart(CueIn) <= EmStart(Emitted[i])
                /\ EmStart(Emitted[i]) <= EmEnd(Emitted[i])
                /\ EmEnd(Emitted[i]) <= CueEnd(CueIn)
          /\ EmEnd(Last(Emitted)) = CueEnd(CueIn)]_vars

\* C20 witness: a 500 ms cue of four chunks lost its fourth chunk and its
\* third cue ends at the original end.
C20_Witness ==
    /\ srt_pos = 2
    /\ IsCue(srt_blocks[1])
    /\ CueDuration(srt_blocks[1]) = 500
    /\ CeilDiv(Len(CueWords(srt_blocks[1])), max_words) = 4
    /\ Len(output_srt_blocks) = 3
    /\ EmEnd(output_srt_blocks[3]) = CueEnd(srt_blocks[1])
    /\ EmStart(output_srt_blocks[1]) = CueStart(srt_blocks[1])


\* C21: a cue of duration T split into n >= 2 chunks with T / n >= 200 ms is
\* emitted as n cues; cue i (0-based) starts at start + i * T / n and ends at
\* start + (i + 1) * T / n, each rounded to the nearest millisecond, the last
\* one ending exactly at the original end; 0-4000 ms with 8 words and
\* max_words = 4 gives exactly 0-2000 and 2000-4000.
C21_EqualShares ==
    [][(ReflowStep /\ Chunks >= 2
          /\ CueDuration(CueIn) >= min_segment_duration_ms * Chunks) =>
          LET n == Chunks
              T == CueDuration(CueIn)
              s == CueStart(CueIn)
              Nearest(ms, num) == 2 * (ms * n - num) <= n /\ 2 * (num - ms * n) <= n
          IN  /\ Len(Emitted) = n
              /\ \A i \in 0..(n - 1) :
                    /\ Nearest(EmStart(Emitted[i + 1]), s * n + i * T)
                    /\ Nearest(EmEnd(Emitted[i + 1]), s * n + (i + 1) * T)
              /\ EmEnd(Emitted[n]) = CueEnd(CueIn)
              /\ (s = 0 /\ T = 4000 /\ n = 2) =>
                    /\ EmStart(Emitted[1]) = 0 /\ EmEnd(Emitted[1]) = 2000
                    /\ EmStart(Emitted[2]) = 2000 /\ EmEnd(Emitted[2]) = 4000]_vars

\* C21 witness: the cue 0-4000 ms with 8 words and max_words = 4 came out as
\* 0-2000 and 2000-4000.
C21_Witness ==
    /\ srt_pos = 2
    /\ max_words = 4
    /\ IsCue(srt_blocks[1])
    /\ CueStart(srt_blocks[1]) = 0
    /\ CueEnd(srt_blocks[1]) = 4000
    /\ Len(CueWords(srt_blocks[1])) = 8
    /\ Len(output_srt_blocks) = 2
    /\ output_srt_blocks[1][2] = NewTimestampLine(0, 2000)
    /\ output_srt_blocks[2][2] = NewTimestampLine(2000, 4000)


\* A timestamp string of the form HH:MM:SS,mmm.
WellFormedTimestamp(ts) == Len(ts) = 4

\* C23 (as stated): a block whose index line is not a number or whose
\* timestamp line does not parse as two timestamps is put into the output
\* unmodified, and the blocks after it are processed.
C23_MalformedPassThrough ==
    [][(BlockStep /\ Len(CueIn) >= 2
          /\ (\/ ~IsDigits(CueIn[1])
              \/ CueIn[2].sep # " --> "
              \/ ~WellFormedTimestamp(CueIn[2].start)
              \/ ~WellFormedTimestamp(CueIn[2].end))) =>
          /\ Emitted = << CueIn >>
          /\ new_subtitle_index' = new_subtitle_index
          /\ pc' = "srt"]_vars

\* C24: a cue whose end - start <= 0 is emitted exactly once, with its
\* original timestamp line and text lines and the next output index, and is
\* never split.
C24_DegenerateCue ==
    [][(BlockStep /\ IsCue(CueIn) /\ CueDuration(CueIn) <= 0) =>
          /\ Len(Emitted) = 1
          /\ Emitted[1][1] = ToString(new_subtitle_index)
          /\ Emitted[1][2] = CueIn[2]
          /\ SubSeq(Emitted[1], 3, Len(Emitted[1])) = SubSeq(CueIn, 3, Len(CueIn))
          /\ new_subtitle_index' = new_subtitle_index + 1]_vars

\* C24 witness: a cue of -500 ms with three words on two lines and
\* max_words = 1 came out as one cue with both lines.
C24_Witness ==
    /\ srt_pos = 2
    /\ max_words = 1
    /\ IsCue(srt_blocks[1])
    /\ CueDuration(srt_blocks[1]) = -500
    /\ Len(srt_blocks[1]) = 4
    /\ Len(CueWords(srt_blocks[1])) = 3
    /\ Len(output_srt_blocks) = 1
    /\ SubSeq(output_srt_blocks[1], 2, 4) = SubSeq(srt_blocks[1], 2, 4)

\* The blocks of the output that the segmenter wrote as cues (a block passed
\* through is not one: it failed a check that every written cue passes).
EmittedCues == SelectSeq(output_srt_blocks, IsCue)

\* C25: the cues written carry the indices 1, 2, 3, ... in output order over
\* the whole file, and new_subtitle_index is the number of cues written plus
\* one.
C25_OutputNumbering ==
    pc \in {"srt", "srt_written", "srt_write_failed"} =>
        /\ \A i \in 1..Len(EmittedCues) : EmittedCues[i][1] = ToString(i)
        /\ new_subtitle_index = Len(EmittedCues) + 1

\* C25 witness: a first cue lost a chunk (two cues written for three chunks)
\* and the cue of the second block carries index 3.
C25_Witness ==
    /\ srt_pos = 3
    /\ IsCue(srt_blocks[1])
    /\ CueDuration(srt_blocks[1]) = 300
    /\ CeilDiv(Len(CueWords(srt_blocks[1])), max_words) = 3
    /\ Len(output_srt_blocks) = 3
    /\ output_srt_blocks[3][1] = "3"
    /\ output_srt_blocks[3][2] = srt_blocks[2][2]


\* The cues of a file as its blocks without empty first lines and without
\* empty blocks.
WithoutEmptyFirstLine(b) == IF Len(b) >= 1 /\ b[1] = "" THEN Tail(b) ELSE b
RECURSIVE CuesOf(_)
CuesOf(blocks) ==
    IF blocks = <<>> THEN <<>>
    ELSE IF Head(blocks) = <<>> THEN CuesOf(Tail(blocks))
    ELSE << WithoutEmptyFirstLine(Head(blocks)) >> \o CuesOf(Tail(blocks))

\* C22 (as stated): the segmenter run on its own output with the same
\* max_words writes the same cues: same count, text, timings and numbering.
C22_Idempotent ==
    pc = "srt_again_written" => CuesOf(output_srt_blocks) = CuesOf(srt_blocks)


\* C26: a segment list of one entry (zoom skipped, or zoom render failed) is
\* copied to the combined path without an engine call; a list of more than
\* one entry is concatenated by one engine call over the entries in creation
\* order, and the failure of that call is fatal.
C26_SegmentAssembler ==
    /\ combined = "copy" =>
          Len(video_parts_to_concat) = 1 /\ ~Called("concat") /\ concat_list = <<>>
    /\ Called("concat") =>
          /\ Len(video_parts_to_concat) > 1
          /\ CallCount("concat") = 1
          /\ concat_list = video_parts_to_concat
          /\ concat_list = << "part1", "part2" >>
    /\ combined = "concat" <=> CalledOk("concat")
    /\ CallFailed("concat") =>
          /\ error = Some(MsgConcat)
          /\ ~Called("mux")
          /\ pc \in {"except", "finally", "done"}
          /\ Ended => Last(updates).status = "failed"
    /\ pc \in {"mux", "upload", "complete"} => combined \in {"copy", "concat"}

\* C26 witness: the zoom render failed and the only segment was copied.
C26_Witness ==
    /\ CallFailed("zoom")
    /\ video_parts_to_concat = << "part1" >>
    /\ combined = "copy"
    /\ ~Called("concat")
    /\ pc = "mux"


\* The elements of a sequence.
Range(seq) == { seq[i] : i \in 1..Len(seq) }

\* C28: in the argument list of the mux command the audio file is an input,
\* its audio stream (1:a) is mapped and -shortest is present exactly when the
\* audio was downloaded; the first input is the combined video, the first
\* map is 0:v and there is no filter graph (the overlay is disabled).
C28_MuxArguments ==
    ~IsNone(ffmpeg_command_final) =>
        LET c == Val(ffmpeg_command_final)
        IN  /\ ("audio" \in Range(c.inputs)) <=> successfully_downloaded_audio
            /\ ("1:a" \in Range(c.maps)) <=> successfully_downloaded_audio
            /\ c.shortest <=> successfully_downloaded_audio
            /\ successfully_downloaded_audio <=> (dl.audio = "ok")
            /\ c.inputs[1] = "combined"
            /\ c.maps[1] = "0:v"
            /\ ~c.filter_complex
            /\ Len(c.inputs) = Len(c.maps)
            /\ Len(c.inputs) = IF successfully_downloaded_audio THEN 2 ELSE 1

\* C28 witness: the mux ran with the audio as second input, mapped, and with
\* -shortest.
C28_Witness ==
    /\ CalledOk("mux")
    /\ dl.audio = "ok"
    /\ Val(ffmpeg_command_final).inputs = << "combined", "audio" >>
    /\ Val(ffmpeg_command_final).maps = << "0:v", "1:a" >>
    /\ Val(ffmpeg_command_final).shortest


\* The request positions (0-based) of the images whose download succeeded.
DownloadedPositions ==
    { i \in 0..(image_count - 1) : dl.img[i] = "ok" }

\* A sequence of integers in strictly increasing order.
StrictlyIncreasing(seq) ==
    \A a, b \in 1..Len(seq) : a < b => seq[a] < seq[b]

\* C29: the slideshow's file list names exactly the images whose download
\* succeeded, in the order of the request's image list, and the source of
\* the zoom segment is the last of them.
C29_ImageOrder ==
    /\ filelist_part1 # <<>> =>
          LET files == [k \in 1..Len(filelist_part1) |-> filelist_part1[k].file]
          IN  /\ files = successfully_downloaded_images
              /\ StrictlyIncreasing(files)
              /\ Range(files) = DownloadedPositions
    /\ ~IsNone(last_image_path) =>
          /\ Val(last_image_path) =
                successfully_downloaded_images[Len(successfully_downloaded_images)]
          /\ Val(last_image_path) \in DownloadedPositions
          /\ \A i \in DownloadedPositions : i <= Val(last_image_path)
          /\ Val(last_image_path) = filelist_part1[Len(filelist_part1)].file

\* C29 witness: of three requested images the last one was not downloaded;
\* the zoom was rendered from the last downloaded image (position 1), which
\* is not the request's last image.
C29_Witness ==
    /\ CalledOk("zoom")
    /\ image_count = 3
    /\ dl.img[2] # "ok"
    /\ Len(successfully_downloaded_images) = 2
    /\ last_image_path = Some(1)


\* config.py lines 46-48 and 20: the target video properties and the output
\* frame rate of the high-quality zoom.
target_video_width == 1024

target_video_height == 720

target_fps == 30

hq_zoom_output_framerate == 25

\* Lines 146-156: the slideshow is scaled and cropped to the target size,
\* converted to yuv420p and written with -r target_fps.
SlideshowParams ==
    [ width |-> target_video_width, height |-> target_video_height,
      pix_fmt |-> "yuv420p", fps |-> target_fps ]

\* Lines 172-250: both zoom filters end in s=target size and yuv420p.  The
\* sinusoidal filter has fps=target_fps and the command -r target_fps; the
\* ping-pong filter has fps=hq_zoom_output_framerate and the command no -r.
ZoomParams(hq) ==
    [ width |-> target_video_width, height |-> target_video_height,
      pix_fmt |-> "yuv420p",
      fps |-> IF hq THEN hq_zoom_output_framerate ELSE target_fps ]

\* The parameters a segment of the concat list was rendered with.
SegmentParams(part) ==
    IF part = "part1" THEN SlideshowParams ELSE ZoomParams(use_hq_zoom)

\* C27: all segments handed to the assembler were rendered with the same
\* resolution, pixel format and frame rate, whichever zoom algorithm the
\* configuration selects.
C27_SameTargetParameters ==
    Called("concat") =>
        \A a, b \in 1..Len(video_parts_to_concat) :
            SegmentParams(video_parts_to_concat[a]) =
                SegmentParams(video_parts_to_concat[b])


\* ------------------------------------------------- the ping-pong zoom filter
\* Zoom factors are counted in ten-thousandths: 1.0 is 10000, 0.0015 is 15.

\* Longest zoom segment considered, in seconds.
MaxZoomSeconds == 100

\* config.py lines 23-25 and video_service.py line 184.
hq_zoom_pingpong_increment == 15

hq_zoom_pingpong_duration_s == 20

hq_zoom_max_factor == 15000

min_zoom_factor == 10000

\* The settings of config.py lines 20-25 as shipped.
DefaultZoomSettings ==
    [ output_fps |-> hq_zoom_output_framerate,
      pingpong_increment |-> hq_zoom_pingpong_increment,
      one_direction_duration_s |-> hq_zoom_pingpong_duration_s,
      max_zoom_factor |-> hq_zoom_max_factor ]

\* The shipped settings and two overrides through the environment: a shorter
\* half cycle, in which the maximum is never reached, and a half cycle that
\* reaches the maximum exactly with its last frame.
ZoomSettings ==
    { DefaultZoomSettings,
      [ DefaultZoomSettings EXCEPT !.one_direction_duration_s = 10 ],
      [ DefaultZoomSettings EXCEPT !.one_direction_duration_s = 10,
                                   !.pingpong_increment = 20 ] }

\* Zoom durations in milliseconds: the default of line 102, a remainder of a
\* few seconds, and the longest considered.
ZoomDurations == { 7000, default_zoom_duration, MaxZoomSeconds * 1000 }

\* Lines 186-187.
one_direction_frames(st) == st.one_direction_duration_s * st.output_fps

full_cycle_frames(st) == one_direction_frames(st) * 2

\* Line 190: int(actual_zoom_duration * output_fps), the duration in ms.
total_duration_frames(st, ms) == (ms * st.output_fps) \div 1000

\* Mutant of z_expression: the zoom is not clamped.
z_expression_NoClamp(st, n, z) ==
    IF n % full_cycle_frames(st) < one_direction_frames(st)
    THEN z + st.pingpong_increment
    ELSE z - st.pingpong_increment

\* Lines 195-199: the zoom of output frame n from the zoom z of the frame
\* before it.
z_expression(st, n, z) ==
    IF n % full_cycle_frames(st) < one_direction_frames(st)
    THEN Min(z + st.pingpong_increment, st.max_zoom_factor)
    ELSE Max(z - st.pingpong_increment, min_zoom_factor)

\* Lines 200-209: the filter is built from the settings and the frame count.
ZoomFilters ==
    { [ settings |-> st, d |-> total_duration_frames(st, ms) ] :
        st \in ZoomSettings, ms \in ZoomDurations }

\* Lines 172-222: the zoom segment is rendered with some settings for some
\* duration; the first frame has number 0 and the zoom starts at 1.0.
InitZoom ==
    /\ Idle("zoompan")
    /\ NoFleet
    /\ NoSegmenter
    /\ zoom_pan_vf \in ZoomFilters
    /\ on = 0
    /\ zoom = min_zoom_factor

\* One output frame of the zoompan filter.
ZoomFrame ==
    /\ pc = "zoompan"
    /\ on < zoom_pan_vf.d
    /\ zoom' = z_expression(zoom_pan_vf.settings, on, zoom)
    /\ on' = on + 1
    /\ UNCHANGED << zoom_pan_vf, fleet, segmenter >>
    /\ UNCHANGED << pc, request, temp_dir_exists, dl,
                    successfully_downloaded_images,
                    successfully_downloaded_audio, audio_duration_seconds,
                    actual_slideshow_duration, actual_zoom_duration,
                    filelist_part1, last_image_path, video_parts_to_concat,
                    concat_list, combined, ffmpeg_command_final,
                    upload_destination, public_video_url, error, calls,
                    updates, db, cleanup_runs >>

\* d=total_duration_frames: the segment ends after its last frame.
ZoomEnd ==
    /\ pc = "zoompan"
    /\ on = zoom_pan_vf.d
    /\ pc' = "zoompan_done"
    /\ UNCHANGED << zoompan, fleet, segmenter >>
    /\ UNCHANGED << request, temp_dir_exists, dl,
                    successfully_downloaded_images,
                    successfully_downloaded_audio, audio_duration_seconds,
                    actual_slideshow_duration, actual_zoom_duration,
                    filelist_part1, last_image_path, video_parts_to_concat,
                    concat_list, combined, ffmpeg_command_final,
                    upload_destination, public_video_url, error, calls,
                    updates, db, cleanup_runs >>

NextZoom == ZoomFrame \/ ZoomEnd

SpecZoom == InitZoom /\ [][NextZoom]_vars

\* A frame of the zoom segment is produced in this step.
FrameStep == pc = "zoompan" /\ on' = on + 1

\* The frame produced in this step lies in the rising half of its cycle.
RisingHalf ==
    on % full_cycle_frames(zoom_pan_vf.settings)
        < one_direction_frames(zoom_pan_vf.settings)

\* The frame produced in this step is the last of a full cycle.
CycleEnds == on' % full_cycle_frames(zoom_pan_vf.settings) = 0

\* C30: at every output frame the zoom is within [1.0, max_zoom_factor]; it
\* rises by the fixed increment in the first half of each cycle and falls by
\* the same increment in the second half; it is 1.0 at the end of every full
\* cycle.
C30_PingPong ==
    [][FrameStep =>
          /\ min_zoom_factor <= zoom'
          /\ zoom' <= zoom_pan_vf.settings.max_zoom_factor
          /\ RisingHalf =>
                zoom' = zoom + zoom_pan_vf.settings.pingpong_increment
          /\ ~RisingHalf =>
                zoom' = zoom - zoom_pan_vf.settings.pingpong_increment
          /\ CycleEnds => zoom' = min_zoom_factor]_vars

\* C30 as amended: the zoom is within [1.0, max_zoom_factor]; in the first
\* half of each cycle it rises by the fixed increment, or to max_zoom_factor
\* when the increment would pass it, and stays there; in the second half it
\* falls by the increment, or to 1.0 when the decrement would pass it, and
\* stays there; it is 1.0 at the end of every full cycle.
C30_PingPongClamped ==
    [][FrameStep =>
          LET inc == zoom_pan_vf.settings.pingpong_increment
              max_z == zoom_pan_vf.settings.max_zoom_factor
          IN  /\ min_zoom_factor <= zoom' /\ zoom' <= max_z
              /\ RisingHalf =>
                    /\ zoom' >= zoom
                    /\ zoom' = zoom + inc \/ (zoom' = max_z /\ zoom + inc > max_z)
              /\ ~RisingHalf =>
                    /\ zoom' <= zoom
                    /\ \/ zoom' = zoom - inc
                       \/ (zoom' = min_zoom_factor /\ zoom - inc < min_zoom_factor)
              /\ CycleEnds => zoom' = min_zoom_factor]_vars

\* C30 witness: with the shipped settings a full cycle has ended at 1.0; in
\* it the maximum was reached before the end of the rising half.
C30_Witness ==
    /\ pc = "zoompan"
    /\ zoom_pan_vf.settings = DefaultZoomSettings
    /\ on = full_cycle_frames(zoom_pan_vf.settings)
    /\ zoom = min_zoom_factor
    /\ one_direction_frames(zoom_pan_vf.settings)
            * zoom_pan_vf.settings.pingpong_increment
          > zoom_pan_vf.settings.max_zoom_factor - min_zoom_factor


\* ------------------------------------------- further claims on the segmenter

\* A block is handled in this step, in the first or in the second pass.
AnyBlockStep == pc \in {"srt", "srt_again"} /\ srt_pos' = srt_pos + 1

\* A block with a numeric index line and a timestamp line of two readable
\* timestamps around " --> ".
WellFormedCue(b) ==
    /\ IsCue(b)
    /\ WellFormedTimestamp(b[2].start)
    /\ WellFormedTimestamp(b[2].end)

AllWellFormed == \A k \in 1..Len(srt_blocks) : WellFormedCue(srt_blocks[k])

\* C31 (as stated): for a file whose blocks all have a numeric index line and
\* a parsable timestamp line, every cue emitted has end_ms > start_ms.
C31_EndAfterStart ==
    [][(AnyBlockStep /\ AllWellFormed) =>
          \A i \in 1..Len(Emitted) : EmEnd(Emitted[i]) > EmStart(Emitted[i])]_vars

\* C31 (amended): every cue emitted for a well-formed input cue with
\* end > start has end_ms > start_ms; a well-formed input cue with
\* end <= start is emitted with its own timestamp line, so the emitted cue
\* has end_ms <= start_ms.
C31_EndAfterStartForPositive ==
    [][(AnyBlockStep /\ WellFormedCue(CueIn)) =>
          IF CueDuration(CueIn) > 0
          THEN \A i \in 1..Len(Emitted) :
                  EmEnd(Emitted[i]) > EmStart(Emitted[i])
          ELSE /\ Len(Emitted) = 1
               /\ Emitted[1][2] = CueIn[2]
               /\ EmEnd(Emitted[1]) <= EmStart(Emitted[1])]_vars

\* C31 witness: a cue of 100 ms in two chunks came out as one cue of 100 ms,
\* the second chunk having no time left.
C31_Witness ==
    /\ pc = "srt"
    /\ srt_pos = 2
    /\ WellFormedCue(srt_blocks[1])
    /\ CueDuration(srt_blocks[1]) = 100
    /\ CeilDiv(Len(CueWords(srt_blocks[1])), max_words) = 2
    /\ Len(output_srt_blocks) = 1
    /\ EmEnd(output_srt_blocks[1]) - EmStart(output_srt_blocks[1]) = 100


\* C32 (as stated): a cue whose text is empty after trimming is dropped: no
\* cue is emitted for it and no output index is consumed, and every cue
\* emitted has at least one word.
C32_EmptyCueDropped ==
    [][(AnyBlockStep /\ IsCue(CueIn)) =>
          /\ CueWords(CueIn) = <<>> =>
                /\ Emitted = <<>>
                /\ new_subtitle_index' = new_subtitle_index
          /\ \A i \in 1..Len(Emitted) : CueWords(Emitted[i]) # <<>>]_vars


\* The text lines of the block handled in this step, and the segments the
\* text splitter makes of them.
TextLinesIn == SubSeq(CueIn, 3, Len(CueIn))
TextSegmentsIn == split_text_into_segments(TextLinesIn, max_words)

\* The splitter is called in this step: the block is a cue of positive
\* duration.
SplitStep == AnyBlockStep /\ IsCue(CueIn) /\ CueDuration(CueIn) > 0

\* A text of W >= 1 words is cut into chunks of at most max_words words, all
\* but the last of exactly max_words, whose concatenation is the text.
ChunkedInOrder ==
    Len(CueWords(CueIn)) >= 1 =>
        /\ Len(TextSegmentsIn) >= 1
        /\ \A i \in 1..Len(TextSegmentsIn) :
              /\ Len(TextSegmentsIn[i]) >= 1
              /\ Len(TextSegmentsIn[i]) <= max_words
              /\ i < Len(TextSegmentsIn) => Len(TextSegmentsIn[i]) = max_words
        /\ JoinWords(TextSegmentsIn) = CueWords(CueIn)
        /\ CueDuration(CueIn) >= min_segment_duration_ms * Len(TextSegmentsIn) =>
              /\ Len(Emitted) = Len(TextSegmentsIn)
              /\ \A i \in 1..Len(Emitted) : Emitted[i][3] = TextSegmentsIn[i]

AnyReflowStep == SplitStep /\ Len(CueWords(CueIn)) >= 1

\* The words of the cues emitted in this step, in order.
EmittedWords == JoinWords([i \in 1..Len(Emitted) |-> Emitted[i][3]])

\* C34: for a cue of duration T split into n chunks, T > 200 ms * (n - 1)
\* means all n chunks are emitted and no word is lost; when chunks are
\* dropped, T <= 200 ms * (n - 1), the emitted cues carry the first chunks in
\* order (only trailing chunks are dropped), every emitted cue but the last
\* took the full 200 ms, and the last emitted cue ends at the original end,
\* where the cursor ran out of time.
C34_DropOnlyOutOfTime ==
    [][AnyReflowStep =>
          LET n == Len(TextSegmentsIn)
              T == CueDuration(CueIn)
          IN  /\ Len(Emitted) >= 1
              /\ Len(Emitted) <= n
              /\ T > min_segment_duration_ms * (n - 1) =>
                    /\ Len(Emitted) = n
                    /\ EmittedWords = CueWords(CueIn)
              /\ Len(Emitted) < n =>
                    /\ T <= min_segment_duration_ms * (n - 1)
                    /\ \A i \in 1..Len(Emitted) : Emitted[i][3] = TextSegmentsIn[i]
                    /\ \A i \in 1..(Len(Emitted) - 1) :
                          EmEnd(Emitted[i]) - EmStart(Emitted[i])
                             = min_segment_duration_ms
                    /\ EmEnd(Last(Emitted)) = CueEnd(CueIn)
                    /\ EmStart(Emitted[1]) = CueStart(CueIn)]_vars

\* C34 witness: a cue of 300 ms in three chunks came out as two cues with the
\* first two chunks, the second ending at the original end.
C34_Witness ==
    /\ pc = "srt"
    /\ srt_pos = 2
    /\ max_words = 1
    /\ IsCue(srt_blocks[1])
    /\ CueDuration(srt_blocks[1]) = 300
    /\ CueWords(srt_blocks[1]) = Words(1, 3)
    /\ Len(output_srt_blocks) = 2
    /\ output_srt_blocks[1][3] = Words(1, 1)
    /\ output_srt_blocks[2][3] = Words(2, 2)
    /\ EmEnd(output_srt_blocks[2]) = CueEnd(srt_blocks[1])


\* C35: the cues emitted for one reflowed cue are contiguous and ordered: the
\* first starts at the original start, each next one starts exactly where the
\* one before it ended, each ends after it starts, so no two overlap.
C35_Contiguous ==
    [][(AnyReflowStep /\ Len(Emitted) >= 1) =>
          /\ EmStart(Emitted[1]) = CueStart(CueIn)
          /\ \A i \in 1..(Len(Emitted) - 1) :
                EmStart(Emitted[i + 1]) = EmEnd(Emitted[i])
          /\ \A i \in 1..Len(Emitted) : EmStart(Emitted[i]) < EmEnd(Emitted[i])
          /\ \A i, j \in 1..Len(Emitted) :
                i < j => EmEnd(Emitted[i]) <= EmStart(Emitted[j])]_vars

\* C35 witness: a cue from 1500 ms of 1001 ms in four chunks came out as four
\* cues, each starting at the rounded end of the one before.
C35_Witness ==
    /\ pc = "srt"
    /\ srt_pos = 2
    /\ IsCue(srt_blocks[1])
    /\ CueStart(srt_blocks[1]) = 1500
    /\ CueDuration(srt_blocks[1]) = 1001
    /\ Len(output_srt_blocks) = 4
    /\ EmStart(output_srt_blocks[1]) = 1500
    /\ EmEnd(output_srt_blocks[1]) = 1750
    /\ EmStart(output_srt_blocks[2]) = 1750
    /\ EmEnd(output_srt_blocks[2]) = EmStart(output_srt_blocks[3])
    /\ EmEnd(output_srt_blocks[3]) = EmStart(output_srt_blocks[4])
    /\ EmEnd(output_srt_blocks[4]) = 2501


\* ------------------------------------------------------------ termination

\* The pipeline under the assumption that every awaited call returns: a step
\* that can be taken is eventually taken.
SpecFair == Spec /\ WF_vars(Next)

\* The terminal updates issued so far.
TerminalUpdates == SelectSeq(updates, LAMBDA u : Terminal(u.status))

\* C36: when every call returns, the run reaches its end; a run that has
\* ended has issued exactly one terminal update and has called the workspace
\* cleanup once, and the cleanup comes after the terminal update.
C36_TerminatesCleanly ==
    /\ <>(pc = "done")
    /\ [](pc = "done" => Len(TerminalUpdates) = 1 /\ cleanup_runs = 1)
    /\ [](cleanup_runs <= 1)
    /\ [](cleanup_runs = 1 => pc = "done" /\ Len(TerminalUpdates) = 1)
    /\ [](Len(TerminalUpdates) <= 1)

\* C36 witness: a run that failed in the mux has ended, with one "failed"
\* update and the cleanup called.
C36_Witness ==
    /\ pc = "done"
    /\ CallFailed("mux")
    /\ Len(TerminalUpdates) = 1
    /\ TerminalUpdates[1].status = "failed"
    /\ cleanup_runs = 1


\* C37: the payload of a "completed" update carries final_video_url and
\* minutes_taken and no error_message; the payload of a "failed" update
\* carries error_message and neither final_video_url nor minutes_taken; the
\* payload of a "processing" update carries the status only.
C37_PayloadMatchesOutcome ==
    \A i \in 1..Len(updates) :
        LET d == UpdateData(updates[i])
        IN  /\ d.status = Some(updates[i].status)
            /\ updates[i].status = "completed" =>
                  /\ ~IsNone(d.final_video_url)
                  /\ d.final_video_url = public_video_url
                  /\ ~IsNone(d.minutes_taken)
                  /\ IsNone(d.error_message)
            /\ updates[i].status = "failed" =>
                  /\ ~IsNone(d.error_message)
                  /\ d.error_message = error
                  /\ IsNone(d.final_video_url)
                  /\ IsNone(d.minutes_taken)
            /\ updates[i].status = "processing" =>
                  /\ IsNone(d.final_video_url)
                  /\ IsNone(d.error_message)
                  /\ IsNone(d.minutes_taken)

\* C37 witness: a run that took less than 0.005 minutes has issued
\* "completed" with the url and minutes_taken 0.0 in the payload.
C37_Witness ==
    /\ Len(updates) = 2
    /\ updates[1].status = "processing"
    /\ updates[2].status = "completed"
    /\ UpdateData(updates[2]).minutes_taken = Some(0)
    /\ UpdateData(updates[2]).final_video_url = public_video_url
    /\ ~IsNone(public_video_url)

====
